---- MODULE Spec2Model ----
(***************************************************************************)
(* A model of the mensa-localizations read-through cache: Redis (Primary   *)
(* Cache), S3 (Durable Versioned Store), Tolgee (Origin), the singleflight *)
(* group that coalesces fills, and the background refresh.                 *)
(*                                                                         *)
(* Spec        models src/main/main.go (getTranslationsCached with the     *)
(*             staleness monitor, no force flag).                          *)
(* SpecRefresh is Spec with one request worker and MaxTasks goroutines.    *)
(* SpecNoS3   is Spec with the S3 client nil.                              *)
(* SpecDetach is SpecRefresh with cancellation of the request context.     *)
(* SpecStore   applies putVersionAndLatest and                             *)
(*             putLanguagesVersionAndLatest of main.go to one bucket.      *)
(* SpecVerify  models the signature check of the webhook, cache.go:1567.   *)
(* SpecForce   models src/main/cache.go:1195-1446 (the force flag, the     *)
(*             prefork children).                                          *)
(* SpecLegacy  models src/unnamed/part_001 (RebuildTheCache and            *)
(*             GetTranslationsFromCache, no singleflight).                 *)
(* Each specification follows one process of the server (a prefork child   *)
(* has a singleflight group of its own); SpecForce follows NumChildren of  *)
(* them.  Time is counted in minutes.                                      *)
(***************************************************************************)
EXTENDS Integers, Sequences, FiniteSets, TLC

\* ---------------------------------------------------------------- bounds
NumWorkers == 2      \* foreground request workers
NumChildren == 2     \* child processes of the prefork server
MaxTasks == 2        \* goroutines spawned by scheduleRefreshBestEffort that can be alive at once
MaxPuts == 3         \* PutObject pairs in one behaviour of SpecStore
MaxRebuilds == 1     \* rebuilds that the webhook starts in one behaviour of SpecRebuild
MaxTime == 20        \* the clock stops here (minutes)

\* ------------------------------------------------------- program constants
staleAfter == 15             \* main.go:234  15 * time.Minute
redisValueTTL == 10          \* main.go:235  10 * time.Minute
signatureMaxAge == 5         \* cache.go:1590  5 * time.Minute
redisFetchedAtSuffix == ":fetched_utc"
Sentinel == "{}"             \* []byte("{}")

Workers == 1..NumWorkers
Tasks == (NumWorkers + 1)..(NumWorkers + MaxTasks)
Procs == Workers \cup Tasks
OneWorker == {1}                 \* the foreground of SpecRefresh
OneTask == {NumWorkers + 1}      \* the goroutine slot of Spec

Payloads == {"p1", "p2"}     \* the export bodies of the Tolgee project
AppIDs == {"", "app"}        \* c.Params("app"); "" is the empty ak
TickSteps == {20}

NoErr == "nil"
RedisNil == "redis.Nil"
IOError == "error"

VARIABLES
  now,      \* wall clock, minutes
  rdb,      \* Redis: key -> [val, exp]; a key outside the domain is absent
  s3,       \* the bucket: object key -> [body, created]
  s3c,      \* TRUE iff main() built an s3Client (s3c != nil)
  sf,       \* singleflight.Group.m: call key -> the proc executing fn
  pc,       \* where each proc is in getTranslationsCached
  req,      \* each proc's arguments
  v,        \* each proc's (v, sfErr) of sf.Do, or b of the first Redis read
  trail,    \* history: the tiers each proc's call consulted, with the outcome
  coal,     \* history: the leader whose flight the proc joined as a duplicate
  during    \* history: the leader whose fill was in flight when the call was issued

vars == <<now, rdb, s3, s3c, sf, pc, req, v, trail, coal, during>>

\* ------------------------------------------------------------ finite maps
Put(f, k, x) == [y \in (DOMAIN f) \cup {k} |-> IF y = k THEN x ELSE f[y]]
Drop(f, ks) == [y \in (DOMAIN f) \ ks |-> f[y]]
EmptyMap == [y \in {} |-> 0]

\* ------------------------------------------------------------------ keys
Mode(nested) == IF nested THEN "nested" ELSE "flat"

\* main.go:306  redisKey := "translations:" + appID + ":" + lang + ":" + mode
TranslationsRedisKey(appID, lang, nested) ==
  "translations:" \o appID \o ":" \o lang \o ":" \o Mode(nested)

RedisKeyOf(r) == TranslationsRedisKey(r.app, r.lang, r.nested)
FetchedAtKeyOf(r) == RedisKeyOf(r) \o redisFetchedAtSuffix

\* s3_keys.go:10  on the identifiers of this model (no "..", "/", "\", blanks)
\* only the empty-string branch of sanitizeKeyPart changes anything
SanitizePlain(s) == IF s = "" THEN "_" ELSE s

\* s3_keys.go:22
s3LatestKey(appID, lang) ==
  "localizations/" \o SanitizePlain(appID) \o "/" \o SanitizePlain(lang) \o "/latest.json"

Sha256Hex(p) == "sha256-" \o p

\* s3_keys.go:26
s3VersionKey(appID, lang, tsUTC, sha) ==
  "localizations/" \o SanitizePlain(appID) \o "/" \o SanitizePlain(lang) \o "/"
     \o ToString(tsUTC) \o "_" \o sha \o ".json"

LangMode(r) == r.lang \o "_" \o Mode(r.nested)

\* --------------------------------------------------------------- Redis
\* rdb.Get(ctx, key).Bytes(): a transport error, redis.Nil, or the value
RedisGet(key) ==
  {[err |-> IOError, val |-> ""]} \cup
  {IF key \in DOMAIN rdb THEN [err |-> NoErr, val |-> rdb[key].val]
                         ELSE [err |-> RedisNil, val |-> ""]}

\* rdb.Get(ctx, fetchedAtKey).Result() followed by parseUnixSeconds
RedisGetTs(key) ==
  {[err |-> IOError, val |-> 0]} \cup
  {IF key \in DOMAIN rdb THEN [err |-> NoErr, val |-> rdb[key].val]
                         ELSE [err |-> RedisNil, val |-> 0]}

\* rdb.Set(ctx, key, val, ttl).Err() ignored: the write happens iff ok
RedisSet(store, ok, key, val, ttl) ==
  IF ok THEN Put(store, key, [val |-> val, exp |-> now + ttl]) ELSE store

\* a variant of the write-back that stores the body under the key without the mode
WriteBack_OtherKey(r, body, ok1, ok2) ==
  RedisSet(RedisSet(rdb, ok1, "translations:" \o r.app \o ":" \o r.lang, body, redisValueTTL),
           ok2, FetchedAtKeyOf(r), now, redisValueTTL)

\* redis.go:24  redisPut: ttl <= 0 stores the value without expiry
NoExpiry == 0 - 1
redisPut(store, ok, key, val, ttl) ==
  IF ~ok THEN store
  ELSE IF ttl <= 0 THEN Put(store, key, [val |-> val, exp |-> NoExpiry])
  ELSE Put(store, key, [val |-> val, exp |-> now + ttl])

\* a variant of the write-back whose entries outlive the staleness threshold
WriteBack_LongTTL(r, body, ok1, ok2) ==
  RedisSet(RedisSet(rdb, ok1, RedisKeyOf(r), body, 2 * redisValueTTL),
           ok2, FetchedAtKeyOf(r), now, 2 * redisValueTTL)

\* the two write-back Sets of main.go:356-357 and 429-430
WriteBack(r, body, ok1, ok2) ==
  RedisSet(RedisSet(rdb, ok1, RedisKeyOf(r), body, redisValueTTL),
           ok2, FetchedAtKeyOf(r), now, redisValueTTL)

\* ------------------------------------------------------------------ S3
\* s3Client.getLatest  main.go:93
getLatest(appID, lang) ==
  LET key == s3LatestKey(appID, lang) IN
  {[err |-> IOError, body |-> ""]} \cup
  {IF key \in DOMAIN s3 THEN [err |-> NoErr, body |-> s3[key].body]
                        ELSE [err |-> "NoSuchKey", body |-> ""]}

\* s3Client.headCreatedUTC  main.go:249
headCreatedUTC(key) ==
  {[ok |-> FALSE, t |-> 0]} \cup
  {IF key \in DOMAIN s3 THEN [ok |-> TRUE, t |-> s3[key].created]
                        ELSE [ok |-> FALSE, t |-> 0]}

\* s3Client.putVersionAndLatest  main.go:116; outcome tells which PutObject fails
PutOutcomes == {"version fails", "latest fails", "ok"}

\* a variant of putVersionAndLatest that leaves an existing latest.json alone
putVersionAndLatest_KeepLatest(bucket, appID, lang, payload, outcome) ==
  LET obj == [body |-> payload, created |-> now]
      versionKey == s3VersionKey(appID, lang, now, Sha256Hex(payload))
      latestKey == s3LatestKey(appID, lang)
  IN  IF outcome = "version fails" THEN bucket
      ELSE IF outcome = "latest fails" \/ latestKey \in DOMAIN bucket
           THEN Put(bucket, versionKey, obj)
      ELSE Put(Put(bucket, versionKey, obj), latestKey, obj)

\* a variant of putVersionAndLatest that names the version by its time only
putVersionAndLatest_ByTime(bucket, appID, lang, payload, outcome) ==
  LET obj == [body |-> payload, created |-> now]
      versionKey == s3VersionKey(appID, lang, now, "")
      latestKey == s3LatestKey(appID, lang)
  IN  IF outcome = "version fails" THEN bucket
      ELSE IF outcome = "latest fails" THEN Put(bucket, versionKey, obj)
      ELSE Put(Put(bucket, versionKey, obj), latestKey, obj)

\* a variant of putVersionAndLatest that overwrites latest.json before it
\* writes the versioned object
putVersionAndLatest_LatestFirst(bucket, appID, lang, payload, outcome) ==
  LET obj == [body |-> payload, created |-> now]
      versionKey == s3VersionKey(appID, lang, now, Sha256Hex(payload))
      latestKey == s3LatestKey(appID, lang)
  IN  IF outcome = "latest fails" THEN bucket
      ELSE IF outcome = "version fails" THEN Put(bucket, latestKey, obj)
      ELSE Put(Put(bucket, versionKey, obj), latestKey, obj)

putVersionAndLatest(bucket, appID, lang, payload, outcome) ==
  LET obj == [body |-> payload, created |-> now]
      versionKey == s3VersionKey(appID, lang, now, Sha256Hex(payload))
      latestKey == s3LatestKey(appID, lang)
  IN  IF outcome = "version fails" THEN bucket
      ELSE IF outcome = "latest fails" THEN Put(bucket, versionKey, obj)
      ELSE Put(Put(bucket, versionKey, obj), latestKey, obj)

\* main.go:277
shouldRefresh(tnow, fetchedAt) == tnow - fetchedAt > staleAfter

\* the content of the Tolgee project: p1 until the translators publish p2
TolgeeBody(t) == IF t < staleAfter THEN "p1" ELSE "p2"

\* main.go:380-425: what one Tolgee export call can end in
EmptyAk == "empty ak"        \* main.go:382: no export call is made
OriginOutcomes == {"transport error", "non-2xx", "empty body", TolgeeBody(now)}

\* ------------------------------------------------------------ the calls
Idle(p) == pc[p] = "idle"
Append1(p, tier, out) == [trail EXCEPT ![p] = Append(@, <<tier, out>>)]
Result(val) == [val |-> val, err |-> NoErr]
NoResult == [val |-> "", err |-> NoErr]
\* the arguments of a call: ctx is 0 for context.Background() and w for the
\* c.Context() of the request that worker w is serving; done: that context
\* has been cancelled
NoReq == [app |-> "", lang |-> "", nested |-> FALSE, ctx |-> 0, done |-> FALSE]
SameKey(r, q) == r.app = q.app /\ r.lang = q.lang /\ r.nested = q.nested

\* the context of the call is over: cancelled, or its request has returned
Cancelled(p) ==
  LET c == req[p].ctx IN c # 0 /\ (req[c].ctx # c \/ req[c].done)

\* what an operation that takes the ctx of call p can end in
Under(p, outcomes) ==
  IF Cancelled(p) THEN {o \in outcomes : o.err = IOError} ELSE outcomes
OriginUnder(p) == IF Cancelled(p) THEN {"transport error"} ELSE OriginOutcomes
\* redis.Nil and a transport error are told apart only in the log (main.go:332-336)
Miss(err) == "none"

\* during[p] once the flight the call was issued during has ended
Gone == 0 - 1

\* the flight of the raw key in progress, 0 if none
LeaderOf(key) == IF key \in DOMAIN sf THEN sf[key] ELSE 0

Init ==
  /\ now = 0
  /\ rdb = EmptyMap
  /\ s3c = TRUE
  /\ s3 \in {EmptyMap,
             putVersionAndLatest(EmptyMap, "app", "en_flat", "p1", "ok")}
  /\ sf = EmptyMap
  /\ pc = [p \in Procs |-> "idle"]
  /\ req = [p \in Procs |-> NoReq]
  /\ v = [p \in Procs |-> NoResult]
  /\ trail = [p \in Procs |-> <<>>]
  /\ coal = [p \in Procs |-> 0]
  /\ during = [p \in Procs |-> 0]

\* ------------------------------------------------- getTranslationsCached
\* history of a proc that is handed a new call
BeginDuring(p, key) == [during EXCEPT ![p] = LeaderOf(key)]

\* GET /api/:app/:lang  main.go:637-649: a request worker enters the function
\* (the calls in progress at one time are calls for one key: the keys share nothing)
Start(w) ==
  /\ Idle(w)
  /\ \A x \in Workers : x < w => ~Idle(x)
  /\ \E a \in AppIDs :
       LET r == [app |-> a, lang |-> "en", nested |-> FALSE, ctx |-> w, done |-> FALSE] IN
       /\ \A x \in Procs : ~Idle(x) => SameKey(req[x], r)
       /\ req' = [req EXCEPT ![w] = r]
       /\ during' = BeginDuring(w, RedisKeyOf(r))
  /\ pc' = [pc EXCEPT ![w] = "get"]
  /\ UNCHANGED <<now, rdb, s3, s3c, sf, v, trail, coal>>

\* a variant of the first Redis read that schedules a refresh on every hit
Get1_Reschedules(w) ==
  /\ pc[w] = "get"
  /\ \E r \in Under(w, RedisGet(RedisKeyOf(req[w]))) :
       IF r.err = NoErr
       THEN /\ trail' = Append1(w, "P", r.val)
            /\ v' = [v EXCEPT ![w] = Result(r.val)]
            /\ pc' = [pc EXCEPT ![w] = "sched"]
       ELSE /\ trail' = Append1(w, "P", Miss(r.err))
            /\ pc' = [pc EXCEPT ![w] = "sf_do"]
            /\ UNCHANGED v
  /\ UNCHANGED <<now, rdb, s3, s3c, sf, req, coal, during>>

\* main.go:311-329: first Redis read; on a hit the staleness check
Get1(w) ==
  /\ pc[w] = "get"
  /\ \E r \in Under(w, RedisGet(RedisKeyOf(req[w]))) :
       IF r.err = NoErr
       THEN \E t \in RedisGetTs(FetchedAtKeyOf(req[w])) :
              /\ trail' = Append1(w, "P", r.val)
              /\ v' = [v EXCEPT ![w] = Result(r.val)]
              /\ pc' = [pc EXCEPT ![w] =
                          IF t.err = NoErr /\ shouldRefresh(now, t.val) THEN "sched" ELSE "hit"]
       ELSE /\ trail' = Append1(w, "P", Miss(r.err))
            /\ pc' = [pc EXCEPT ![w] = "sf_do"]
            /\ UNCHANGED v
  /\ UNCHANGED <<now, rdb, s3, s3c, sf, req, coal, during>>

\* main.go:338  sf.Do(redisKey, fn): run fn, or wait for the call in flight
SfDo(w) ==
  /\ pc[w] = "sf_do"
  /\ LET key == RedisKeyOf(req[w]) IN
     IF key \in DOMAIN sf
     THEN /\ pc' = [pc EXCEPT ![w] = "sf_wait"]
          /\ coal' = [coal EXCEPT ![w] = sf[key]]
          /\ UNCHANGED sf
     ELSE /\ sf' = Put(sf, key, w)
          /\ pc' = [pc EXCEPT ![w] = "fill_redis"]
          /\ UNCHANGED coal
  /\ UNCHANGED <<now, rdb, s3, s3c, req, v, trail, during>>

\* a variant of the second Redis read that goes on to S3 after a hit
FillRedis2_Deeper(w) ==
  /\ pc[w] = "fill_redis"
  /\ \E r \in Under(w, RedisGet(RedisKeyOf(req[w]))) :
       /\ trail' = Append1(w, "P", IF r.err = NoErr THEN r.val ELSE Miss(r.err))
       /\ v' = [v EXCEPT ![w] = IF r.err = NoErr THEN Result(r.val) ELSE @]
       /\ pc' = [pc EXCEPT ![w] = "fill_s3"]
  /\ UNCHANGED <<now, rdb, s3, s3c, sf, req, coal, during>>

\* main.go:340-349: second Redis read, inside the flight
FillRedis2(w) ==
  /\ pc[w] = "fill_redis"
  /\ \E r \in Under(w, RedisGet(RedisKeyOf(req[w]))) :
       IF r.err = NoErr
       THEN /\ trail' = Append1(w, "P", r.val)
            /\ v' = [v EXCEPT ![w] = Result(r.val)]
            /\ pc' = [pc EXCEPT ![w] = "sf_done"]
       ELSE /\ trail' = Append1(w, "P", Miss(r.err))
            /\ pc' = [pc EXCEPT ![w] = "fill_s3"]
            /\ UNCHANGED v
  /\ UNCHANGED <<now, rdb, s3, s3c, sf, req, coal, during>>

\* a variant of the S3 step that gives up with the sentinel when the read fails
FillS3_Abort(w) ==
  /\ pc[w] = "fill_s3"
  /\ \E f \in Under(w, getLatest(req[w].app, LangMode(req[w]))) :
       IF f.err = NoErr /\ f.body # ""
       THEN /\ trail' = Append1(w, "D", f.body)
            /\ v' = [v EXCEPT ![w] = Result(f.body)]
            /\ pc' = [pc EXCEPT ![w] = "sf_done"]
       ELSE /\ trail' = Append1(w, "D", Miss(f.err))
            /\ v' = [v EXCEPT ![w] = Result(Sentinel)]
            /\ pc' = [pc EXCEPT ![w] = IF f.err = IOError THEN "sf_done" ELSE "fill_origin"]
  /\ UNCHANGED <<now, rdb, s3, s3c, sf, req, coal, during>>

\* a variant of the S3 step that does not test s3c and reads the bucket
FillS3_IgnoresNil(w) ==
  /\ pc[w] = "fill_s3"
  /\ \E f \in Under(w, getLatest(req[w].app, LangMode(req[w]))) :
       IF f.err = NoErr /\ f.body # ""
       THEN \E ok1, ok2 \in BOOLEAN :
            \E h \in headCreatedUTC(s3LatestKey(req[w].app, LangMode(req[w]))) :
              /\ rdb' = WriteBack(req[w], f.body, ok1, ok2)
              /\ trail' = Append1(w, "D", f.body)
              /\ v' = [v EXCEPT ![w] = Result(f.body)]
              /\ pc' = [pc EXCEPT ![w] =
                          IF h.ok /\ shouldRefresh(now, h.t) THEN "sched" ELSE "sf_done"]
       ELSE /\ trail' = Append1(w, "D", Miss(f.err))
            /\ pc' = [pc EXCEPT ![w] = "fill_origin"]
            /\ UNCHANGED <<rdb, v>>
  /\ UNCHANGED <<now, s3, s3c, sf, req, coal, during>>

\* a variant of the S3 step that stores the created-at of latest.json as the
\* fetched-at of the entry it writes back
FillS3_CreatedAt(w) ==
  /\ pc[w] = "fill_s3"
  /\ IF ~s3c
     THEN /\ pc' = [pc EXCEPT ![w] = "fill_origin"]
          /\ UNCHANGED <<rdb, v, trail>>
     ELSE \E f \in Under(w, getLatest(req[w].app, LangMode(req[w]))) :
            IF f.err = NoErr /\ f.body # ""
            THEN \E ok1, ok2 \in BOOLEAN :
                 \E h \in headCreatedUTC(s3LatestKey(req[w].app, LangMode(req[w]))) :
                   /\ rdb' = RedisSet(RedisSet(rdb, ok1, RedisKeyOf(req[w]), f.body, redisValueTTL),
                                      ok2, FetchedAtKeyOf(req[w]),
                                      IF h.ok THEN h.t ELSE now, redisValueTTL)
                   /\ trail' = Append1(w, "D", f.body)
                   /\ v' = [v EXCEPT ![w] = Result(f.body)]
                   /\ pc' = [pc EXCEPT ![w] =
                               IF h.ok /\ shouldRefresh(now, h.t) THEN "sched" ELSE "sf_done"]
            ELSE /\ trail' = Append1(w, "D", Miss(f.err))
                 /\ pc' = [pc EXCEPT ![w] = "fill_origin"]
                 /\ UNCHANGED <<rdb, v>>
  /\ UNCHANGED <<now, s3, s3c, sf, req, coal, during>>

\* main.go:351-377: S3 latest, write-back to Redis, HEAD and staleness check
FillS3(w) ==
  /\ pc[w] = "fill_s3"
  /\ IF ~s3c
     THEN /\ pc' = [pc EXCEPT ![w] = "fill_origin"]
          /\ UNCHANGED <<rdb, v, trail>>
     ELSE \E f \in Under(w, getLatest(req[w].app, LangMode(req[w]))) :
            IF f.err = NoErr /\ f.body # ""
            THEN \E ok1, ok2 \in BOOLEAN :
                 \E h \in headCreatedUTC(s3LatestKey(req[w].app, LangMode(req[w]))) :
                   /\ rdb' = WriteBack(req[w], f.body, ok1, ok2)
                   /\ trail' = Append1(w, "D", f.body)
                   /\ v' = [v EXCEPT ![w] = Result(f.body)]
                   /\ pc' = [pc EXCEPT ![w] =
                               IF h.ok /\ shouldRefresh(now, h.t) THEN "sched" ELSE "sf_done"]
            ELSE /\ trail' = Append1(w, "D", Miss(f.err))
                 /\ pc' = [pc EXCEPT ![w] = "fill_origin"]
                 /\ UNCHANGED <<rdb, v>>
  /\ UNCHANGED <<now, s3, s3c, sf, req, coal, during>>

\* a variant of the Tolgee step that returns the (empty) body of a failed export
FillOrigin_NoSentinel(w) ==
  /\ pc[w] = "fill_origin"
  /\ pc' = [pc EXCEPT ![w] = "sf_done"]
  /\ \E o \in OriginUnder(w) :
       /\ trail' = Append1(w, "O", o)
       /\ v' = [v EXCEPT ![w] = Result(IF o \in Payloads THEN o ELSE "")]
  /\ UNCHANGED <<now, rdb, s3, s3c, sf, req, coal, during>>

\* a variant of the Tolgee step that stores the sentinel of a failed export
FillOrigin_CachesSentinel(w) ==
  /\ pc[w] = "fill_origin"
  /\ pc' = [pc EXCEPT ![w] = "sf_done"]
  /\ IF req[w].app = ""
     THEN /\ trail' = Append1(w, "O", EmptyAk)
          /\ v' = [v EXCEPT ![w] = Result(Sentinel)]
          /\ UNCHANGED <<rdb, s3>>
     ELSE \E o \in OriginUnder(w) :
            IF o \notin Payloads
            THEN /\ trail' = Append1(w, "O", o)
                 /\ v' = [v EXCEPT ![w] = Result(Sentinel)]
                 /\ rdb' = WriteBack(req[w], Sentinel, TRUE, TRUE)
                 /\ UNCHANGED s3
            ELSE \E ok1, ok2 \in BOOLEAN, po \in PutOutcomes :
                   /\ trail' = Append1(w, "O", o)
                   /\ rdb' = WriteBack(req[w], o, ok1, ok2)
                   /\ s3' = IF s3c
                            THEN putVersionAndLatest(s3, req[w].app, LangMode(req[w]), o, po)
                            ELSE s3
                   /\ v' = [v EXCEPT ![w] = Result(o)]
  /\ UNCHANGED <<now, s3c, sf, req, coal, during>>

\* main.go:379-437: Tolgee export, write-back to Redis and S3
FillOrigin(w) ==
  /\ pc[w] = "fill_origin"
  /\ pc' = [pc EXCEPT ![w] = "sf_done"]
  /\ IF req[w].app = ""
     THEN /\ trail' = Append1(w, "O", EmptyAk)
          /\ v' = [v EXCEPT ![w] = Result(Sentinel)]
          /\ UNCHANGED <<rdb, s3>>
     ELSE \E o \in OriginUnder(w) :
            IF o \notin Payloads
            THEN /\ trail' = Append1(w, "O", o)
                 /\ v' = [v EXCEPT ![w] = Result(Sentinel)]
                 /\ UNCHANGED <<rdb, s3>>
            ELSE \E ok1, ok2 \in BOOLEAN, po \in PutOutcomes :
                   /\ trail' = Append1(w, "O", o)
                   /\ rdb' = WriteBack(req[w], o, ok1, ok2)
                   /\ s3' = IF s3c
                            THEN putVersionAndLatest(s3, req[w].app, LangMode(req[w]), o, po)
                            ELSE s3
                   /\ v' = [v EXCEPT ![w] = Result(o)]
  /\ UNCHANGED <<now, s3c, sf, req, coal, during>>

\* main.go:439-450: what the call returns after sf.Do (the leader as soon as
\* its fn has returned, a duplicate once it is woken); main.go:330 on a hit
ReturnValue(w) ==
  IF pc[w] = "hit" THEN Result(v[w].val)
  ELSE IF v[w].err # NoErr THEN Result(Sentinel)
  ELSE Result(v[w].val)

AtReturn(w) == pc[w] \in {"hit", "sf_done", "sf_ret"}

\* history of the procs when p returns
EndCoal(p) == [x \in Procs |-> IF x = p \/ coal[x] = p THEN 0 ELSE coal[x]]
EndDuring(p) == [during EXCEPT ![p] = 0]
EndFlight(p) ==
  [x \in Procs |-> IF x = p THEN 0 ELSE IF during[x] = p THEN Gone ELSE during[x]]

\* a variant of the end of a flight in which the duplicates get the sentinel
SfDone_Sentinel(w) ==
  /\ pc[w] = "sf_done"
  /\ LET key == RedisKeyOf(req[w])
         dups == {x \in Procs : pc[x] = "sf_wait" /\ coal[x] = w}
     IN /\ sf' = Drop(sf, {key})
        /\ pc' = [x \in Procs |-> IF x = w THEN "idle"
                                  ELSE IF x \in dups THEN "sf_ret" ELSE pc[x]]
        /\ v' = [x \in Procs |-> IF x = w THEN NoResult
                                 ELSE IF x \in dups THEN Result(Sentinel) ELSE v[x]]
  /\ req' = [req EXCEPT ![w] = NoReq]
  /\ trail' = [trail EXCEPT ![w] = <<>>]
  /\ coal' = [coal EXCEPT ![w] = 0]
  /\ during' = EndFlight(w)
  /\ UNCHANGED <<now, rdb, s3, s3c>>

\* singleflight: fn returned; the call leaves the group, every duplicate is
\* handed the same (val, err), and the leader returns (main.go:439-450)
SfDone(w) ==
  /\ pc[w] = "sf_done"
  /\ LET key == RedisKeyOf(req[w])
         dups == {x \in Procs : pc[x] = "sf_wait" /\ coal[x] = w}
     IN /\ sf' = Drop(sf, {key})
        /\ pc' = [x \in Procs |-> IF x = w THEN "idle"
                                  ELSE IF x \in dups THEN "sf_ret" ELSE pc[x]]
        /\ v' = [x \in Procs |-> IF x = w THEN NoResult
                                 ELSE IF x \in dups THEN v[w] ELSE v[x]]
  /\ req' = [req EXCEPT ![w] = NoReq]
  /\ trail' = [trail EXCEPT ![w] = <<>>]
  /\ coal' = [coal EXCEPT ![w] = 0]
  /\ during' = EndFlight(w)
  /\ UNCHANGED <<now, rdb, s3, s3c>>

\* the call returns ReturnValue(w) to its caller, and the proc is free again
Finish(w) ==
  /\ pc' = [pc EXCEPT ![w] = "idle"]
  /\ req' = [req EXCEPT ![w] = NoReq]
  /\ v' = [v EXCEPT ![w] = NoResult]
  /\ trail' = [trail EXCEPT ![w] = <<>>]
  /\ coal' = EndCoal(w)
  /\ during' = EndDuring(w)
  /\ UNCHANGED <<now, rdb, s3, s3c, sf>>

\* main.go:330  return b, nil
ReturnHit(w) == pc[w] = "hit" /\ Finish(w)

\* main.go:449-450  return bb, nil, in a duplicate of the flight
Return(w) == pc[w] = "sf_ret" /\ Finish(w)

\* ------------------------------------------- scheduleRefreshBestEffort
RefreshKey(r) == "refresh:" \o RedisKeyOf(r)

\* main.go:286  sf.Do("refresh:"+refreshKey, fn)
ScheduleRefresh(w) ==
  /\ pc[w] = "sched"
  /\ IF RefreshKey(req[w]) \in DOMAIN sf
     THEN /\ pc' = [pc EXCEPT ![w] = "sched_wait"]
          /\ UNCHANGED sf
     ELSE /\ sf' = Put(sf, RefreshKey(req[w]), w)
          /\ pc' = [pc EXCEPT ![w] = "sched_run"]
  /\ UNCHANGED <<now, rdb, s3, s3c, req, v, trail, coal, during>>

\* where the caller of scheduleRefreshBestEffort continues: inside the fill
\* (main.go:370, return fallback) or at the return of the hit path (main.go:330)
AfterSched(x) == IF LeaderOf(RedisKeyOf(req[x])) = x THEN "sf_done" ELSE "hit"

\* a variant of the spawn in which fn waits for the refresh goroutines started
\* before it: the caller stays in sf.Do until one of them has finished
RefreshSpawn_Waits(w, slots) ==
  /\ pc[w] = "sched_run"
  /\ \E t \in slots :
       /\ Idle(t)
       /\ \A x \in slots : x < t => ~Idle(x)
       /\ LET rk == RefreshKey(req[w])
              woken == {w} \cup {x \in Procs : pc[x] = "sched_wait" /\ RefreshKey(req[x]) = rk}
          IN /\ sf' = Drop(sf, {rk})
             /\ pc' = [x \in Procs |-> IF x = t THEN "get"
                                       ELSE IF x \in woken THEN AfterSched(x) ELSE pc[x]]
       /\ req' = [req EXCEPT ![t] = [req[w] EXCEPT !.ctx = 0, !.done = FALSE]]
       /\ during' = BeginDuring(t, RedisKeyOf(req[w]))
  /\ UNCHANGED <<now, rdb, s3, s3c, v, trail, coal>>

\* a variant of the spawn in which the refresh goroutine is handed the ctx of
\* the call that schedules it
RefreshSpawn_ReqCtx(w, slots) ==
  /\ pc[w] = "sched_run"
  /\ LET rk == RefreshKey(req[w])
         woken == {w} \cup {x \in Procs : pc[x] = "sched_wait" /\ RefreshKey(req[x]) = rk}
         free == {t \in slots : Idle(t)}
     IN /\ sf' = Drop(sf, {rk})
        /\ IF free = {}
           THEN /\ pc' = [x \in Procs |-> IF x \in woken THEN AfterSched(x) ELSE pc[x]]
                /\ UNCHANGED <<req, during>>
           ELSE LET t == CHOOSE x \in free : \A y \in free : x <= y
                IN /\ pc' = [x \in Procs |-> IF x = t THEN "get"
                                             ELSE IF x \in woken THEN AfterSched(x) ELSE pc[x]]
                   /\ req' = [req EXCEPT ![t] = [req[w] EXCEPT !.done = FALSE]]
                   /\ during' = BeginDuring(t, RedisKeyOf(req[w]))
  /\ UNCHANGED <<now, rdb, s3, s3c, v, trail, coal>>

\* main.go:287-289  fn: go fn(); return.  The goroutine t starts
\* getTranslationsCached(context.Background(), s3c, appID, lang, nested).
\* The go statement never waits: when every slot of the model is taken the
\* goroutine is started all the same and is not followed.
RefreshSpawn(w, slots) ==
  /\ pc[w] = "sched_run"
  /\ LET rk == RefreshKey(req[w])
         woken == {w} \cup {x \in Procs : pc[x] = "sched_wait" /\ RefreshKey(req[x]) = rk}
         free == {t \in slots : Idle(t)}
     IN /\ sf' = Drop(sf, {rk})
        /\ IF free = {}
           THEN /\ pc' = [x \in Procs |-> IF x \in woken THEN AfterSched(x) ELSE pc[x]]
                /\ UNCHANGED <<req, during>>
           ELSE LET t == CHOOSE x \in free : \A y \in free : x <= y
                IN /\ pc' = [x \in Procs |-> IF x = t THEN "get"
                                             ELSE IF x \in woken THEN AfterSched(x) ELSE pc[x]]
                   /\ req' = [req EXCEPT ![t] = [req[w] EXCEPT !.ctx = 0, !.done = FALSE]]
                   /\ during' = BeginDuring(t, RedisKeyOf(req[w]))
  /\ UNCHANGED <<now, rdb, s3, s3c, v, trail, coal>>

\* time passes; Redis drops the keys whose TTL has run out
Tick ==
  /\ \E d \in TickSteps :
       /\ now + d <= MaxTime
       /\ now' = now + d
       /\ rdb' = Drop(rdb, {k \in DOMAIN rdb : rdb[k].exp # NoExpiry /\ rdb[k].exp <= now + d})
  /\ UNCHANGED <<s3, s3c, sf, pc, req, v, trail, coal, during>>

Next ==
  \/ \E w \in Workers : Start(w)
  \/ \E w \in Procs : Get1(w)
  \/ \E w \in Procs : SfDo(w)
  \/ \E w \in Procs : FillRedis2(w)
  \/ \E w \in Procs : FillS3(w)
  \/ \E w \in Procs : FillOrigin(w)
  \/ \E w \in Procs : SfDone(w)
  \/ \E w \in Procs : ReturnHit(w)
  \/ \E w \in Procs : Return(w)
  \/ \E w \in Procs : ScheduleRefresh(w)
  \/ \E w \in Procs : RefreshSpawn(w, OneTask)
  \/ Tick

\* main.go with NumWorkers request workers and one refresh goroutine at a time
Spec == Init /\ [][Next]_vars

NextRefresh ==
  \/ \E w \in OneWorker : Start(w)
  \/ \E w \in Procs : Get1(w)
  \/ \E w \in Procs : SfDo(w)
  \/ \E w \in Procs : FillRedis2(w)
  \/ \E w \in Procs : FillS3(w)
  \/ \E w \in Procs : FillOrigin(w)
  \/ \E w \in Procs : SfDone(w)
  \/ \E w \in Procs : ReturnHit(w)
  \/ \E w \in Procs : Return(w)
  \/ \E w \in Procs : ScheduleRefresh(w)
  \/ \E w \in Procs : RefreshSpawn(w, Tasks)
  \/ Tick

\* main.go with one request worker and up to MaxTasks refresh goroutines alive
SpecRefresh == Init /\ [][NextRefresh]_vars

\* main.go:599-610: S3_ENABLED=false or a configuration error leaves s3c nil
InitNoS3 ==
  /\ now = 0
  /\ rdb = EmptyMap
  /\ s3c = FALSE
  /\ s3 \in {EmptyMap,
             putVersionAndLatest(EmptyMap, "app", "en_flat", "p1", "ok")}
  /\ sf = EmptyMap
  /\ pc = [p \in Procs |-> "idle"]
  /\ req = [p \in Procs |-> NoReq]
  /\ v = [p \in Procs |-> NoResult]
  /\ trail = [p \in Procs |-> <<>>]
  /\ coal = [p \in Procs |-> 0]
  /\ during = [p \in Procs |-> 0]

\* with s3c nil no call reaches scheduleRefreshBestEffort: the entries of
\* Redis expire before they are stale (redisValueTTL < staleAfter)
NextNoS3 ==
  \/ \E w \in Workers : Start(w)
  \/ \E w \in Procs : Get1(w)
  \/ \E w \in Procs : SfDo(w)
  \/ \E w \in Procs : FillRedis2(w)
  \/ \E w \in Procs : FillS3(w)
  \/ \E w \in Procs : FillOrigin(w)
  \/ \E w \in Procs : SfDone(w)
  \/ \E w \in Procs : ReturnHit(w)
  \/ \E w \in Procs : Return(w)
  \/ Tick

\* main.go without the Durable Store
SpecNoS3 == InitNoS3 /\ [][NextNoS3]_vars

\* the context of the request that worker w is serving is cancelled (the
\* client went away, the server shuts down)
Cancel(w) ==
  /\ ~Idle(w)
  /\ req[w].ctx = w
  /\ ~req[w].done
  /\ req' = [req EXCEPT ![w].done = TRUE]
  /\ UNCHANGED <<now, rdb, s3, s3c, sf, pc, v, trail, coal, during>>

NextDetach ==
  \/ NextRefresh
  \/ \E w \in OneWorker : Cancel(w)

\* SpecRefresh with requests whose context can be cancelled
SpecDetach == Init /\ [][NextDetach]_vars

\* ------------------------------------- cache.go:1195-1446, the force flag
Children == 1..NumChildren
Resources == {"translations", "languages"}

\* cache.go:1202 and 1328  redisKey
CacheKey(r) ==
  IF r.res = "languages" THEN "languages:" \o r.app
  ELSE TranslationsRedisKey(r.app, r.lang, r.nested)

\* cache.go:1220 sf.Do(redisKey, ...) and cache.go:1345-1350 callKey
CallKey(r) ==
  IF r.res = "languages" /\ r.force THEN CacheKey(r) \o ":force" ELSE CacheKey(r)

\* sf is a package variable: every prefork child has a group of its own
GroupKey(r) == ToString(r.child) \o "|" \o CallKey(r)

\* cache.go:1116
s3LanguagesLatestKey(appID) == "tolgee-languages/" \o SanitizePlain(appID) \o "/latest.json"

\* cache.go:1120
s3LanguagesVersionKey(appID, tsUTC, sha) ==
  "tolgee-languages/" \o SanitizePlain(appID) \o "/" \o ToString(tsUTC) \o "_" \o sha \o ".json"

LatestKeyF(r) ==
  IF r.res = "languages" THEN s3LanguagesLatestKey(r.app)
  ELSE s3LatestKey(r.app, LangMode(r))

\* cache.go:1050 getLatest and cache.go:1124 getLatestLanguages
getLatestF(r) ==
  {[err |-> IOError, body |-> ""]} \cup
  {IF LatestKeyF(r) \in DOMAIN s3 THEN [err |-> NoErr, body |-> s3[LatestKeyF(r)].body]
                                  ELSE [err |-> "NoSuchKey", body |-> ""]}

\* cache.go:1147
putLanguagesVersionAndLatest(bucket, appID, payload, outcome) ==
  LET obj == [body |-> payload, created |-> now]
      versionKey == s3LanguagesVersionKey(appID, now, Sha256Hex(payload))
      latestKey == s3LanguagesLatestKey(appID)
  IN  IF outcome = "version fails" THEN bucket
      ELSE IF outcome = "latest fails" THEN Put(bucket, versionKey, obj)
      ELSE Put(Put(bucket, versionKey, obj), latestKey, obj)

\* cache.go:1073 and 1147
putF(r, payload, outcome) ==
  IF r.res = "languages" THEN putLanguagesVersionAndLatest(s3, r.app, payload, outcome)
  ELSE putVersionAndLatest(s3, r.app, LangMode(r), payload, outcome)

\* the two write-back Sets of cache.go:1239-1240, 1302-1303, 1370-1371, 1424-1425
WriteBackF(r, body, ok1, ok2) ==
  RedisSet(RedisSet(rdb, ok1, CacheKey(r), body, redisValueTTL),
           ok2, CacheKey(r) \o redisFetchedAtSuffix, now, redisValueTTL)

\* every key of Redis and of the bucket that belongs to the CacheKey of r
KeysOf(r) ==
  {CacheKey(r), CacheKey(r) \o redisFetchedAtSuffix, LatestKeyF(r)} \cup
  {IF r.res = "languages" THEN s3LanguagesVersionKey(r.app, t, Sha256Hex(p))
                          ELSE s3VersionKey(r.app, LangMode(r), t, Sha256Hex(p)) :
     t \in 0..MaxTime, p \in Payloads}

\* a result with the tier it was read from (history)
From(val, tier) == [val |-> val, err |-> NoErr, src |-> tier]
NoResultF == [val |-> "", err |-> NoErr, src |-> ""]
NoReqF == [app |-> "", lang |-> "", nested |-> FALSE, res |-> "", force |-> FALSE, child |-> 0]

InitForce ==
  /\ now = 0
  /\ rdb = EmptyMap
  /\ s3c = TRUE
  /\ s3 \in {EmptyMap,
             putVersionAndLatest(EmptyMap, "app", "en_flat", "p1", "ok"),
             putLanguagesVersionAndLatest(EmptyMap, "app", "p1", "ok")}
  /\ sf = EmptyMap
  /\ pc = [p \in Procs |-> "idle"]
  /\ req = [p \in Procs |-> NoReqF]
  /\ v = [p \in Procs |-> NoResultF]
  /\ trail = [p \in Procs |-> <<>>]
  /\ coal = [p \in Procs |-> 0]
  /\ during = [p \in Procs |-> 0]

\* a request worker of some child enters getTranslationsCached or
\* getLanguagesCached: force = FALSE from the GET handlers (cache.go:1711-1769),
\* force = TRUE from refreshAppTranslations (cache.go:1597-1634).
\* One behaviour follows the calls of one CacheKey: the keys share nothing.
GetF_Start(w) ==
  /\ Idle(w)
  /\ \A x \in Workers : x < w => ~Idle(x)
  /\ \E res \in Resources, force \in BOOLEAN, child \in Children :
       LET r == [app |-> "app", lang |-> "en", nested |-> FALSE,
                 res |-> res, force |-> force, child |-> child] IN
       /\ (DOMAIN rdb) \cup (DOMAIN s3) \subseteq KeysOf(r)
       /\ \A x \in Procs : ~Idle(x) => CacheKey(req[x]) = CacheKey(r)
       /\ req' = [req EXCEPT ![w] = r]
       /\ pc' = [pc EXCEPT ![w] = IF force THEN "f_sf_do" ELSE "f_get"]
  /\ UNCHANGED <<now, rdb, s3, s3c, sf, v, trail, coal, during>>

\* cache.go:1207-1218, 1332-1343: if !force, the first Redis read
GetF_Redis1(w) ==
  /\ pc[w] = "f_get"
  /\ \E r \in RedisGet(CacheKey(req[w])) :
       IF r.err = NoErr
       THEN /\ v' = [v EXCEPT ![w] = From(r.val, "P")]
            /\ pc' = [pc EXCEPT ![w] = "f_hit"]
       ELSE /\ pc' = [pc EXCEPT ![w] = "f_sf_do"]
            /\ UNCHANGED v
  /\ UNCHANGED <<now, rdb, s3, s3c, sf, req, trail, coal, during>>

\* a variant of sf.Do that runs fn although a call of the key is in flight
GetF_SfDo_NoGroup(w) ==
  /\ pc[w] = "f_sf_do"
  /\ sf' = Put(sf, GroupKey(req[w]), w)
  /\ pc' = [pc EXCEPT ![w] = IF req[w].force THEN "f_origin" ELSE "f_redis"]
  /\ UNCHANGED <<now, rdb, s3, s3c, req, v, trail, coal, during>>

\* cache.go:1220 sf.Do(redisKey, fn), cache.go:1350 sf.Do(callKey, fn)
GetF_SfDo(w) ==
  /\ pc[w] = "f_sf_do"
  /\ LET key == GroupKey(req[w]) IN
     IF key \in DOMAIN sf
     THEN /\ pc' = [pc EXCEPT ![w] = "f_wait"]
          /\ coal' = [coal EXCEPT ![w] = sf[key]]
          /\ UNCHANGED sf
     ELSE /\ sf' = Put(sf, key, w)
          /\ pc' = [pc EXCEPT ![w] = IF req[w].force THEN "f_origin" ELSE "f_redis"]
          /\ UNCHANGED coal
  /\ UNCHANGED <<now, rdb, s3, s3c, req, v, trail, during>>

\* cache.go:1222-1231, 1353-1362: if !force, the second Redis read
GetF_FillRedis2(w) ==
  /\ pc[w] = "f_redis"
  /\ \E r \in RedisGet(CacheKey(req[w])) :
       IF r.err = NoErr
       THEN /\ v' = [v EXCEPT ![w] = From(r.val, "P")]
            /\ pc' = [pc EXCEPT ![w] = "f_done"]
       ELSE /\ pc' = [pc EXCEPT ![w] = "f_s3"]
            /\ UNCHANGED v
  /\ UNCHANGED <<now, rdb, s3, s3c, sf, req, trail, coal, during>>

\* cache.go:1233-1250, 1364-1381: if !force, S3 latest and the write-back
GetF_FillS3(w) ==
  /\ pc[w] = "f_s3"
  /\ IF ~s3c
     THEN /\ pc' = [pc EXCEPT ![w] = "f_origin"]
          /\ UNCHANGED <<rdb, v>>
     ELSE \E f \in getLatestF(req[w]) :
            IF f.err = NoErr /\ f.body # ""
            THEN \E ok1, ok2 \in BOOLEAN :
                   /\ rdb' = WriteBackF(req[w], f.body, ok1, ok2)
                   /\ v' = [v EXCEPT ![w] = From(f.body, "D")]
                   /\ pc' = [pc EXCEPT ![w] = "f_done"]
            ELSE /\ pc' = [pc EXCEPT ![w] = "f_origin"]
                 /\ UNCHANGED <<rdb, v>>
  /\ UNCHANGED <<now, s3, s3c, sf, req, trail, coal, during>>

\* cache.go:1252-1310, 1383-1432: Tolgee, write-back to Redis and S3
GetF_FillOrigin(w) ==
  /\ pc[w] = "f_origin"
  /\ pc' = [pc EXCEPT ![w] = "f_done"]
  /\ IF req[w].app = ""
     THEN /\ v' = [v EXCEPT ![w] = From(Sentinel, "O")]
          /\ UNCHANGED <<rdb, s3>>
     ELSE \E o \in OriginOutcomes :
            IF o \notin Payloads
            THEN /\ v' = [v EXCEPT ![w] = From(Sentinel, "O")]
                 /\ UNCHANGED <<rdb, s3>>
            ELSE \E ok1, ok2 \in BOOLEAN, po \in PutOutcomes :
                   /\ rdb' = WriteBackF(req[w], o, ok1, ok2)
                   /\ s3' = IF s3c THEN putF(req[w], o, po) ELSE s3
                   /\ v' = [v EXCEPT ![w] = From(o, "O")]
  /\ UNCHANGED <<now, s3c, sf, req, trail, coal, during>>

\* singleflight: fn returned; the duplicates are handed its result and the
\* leader returns it (cache.go:1312-1323, 1434-1445)
GetF_SfDone(w) ==
  /\ pc[w] = "f_done"
  /\ LET dups == {x \in Procs : pc[x] = "f_wait" /\ coal[x] = w}
     IN /\ sf' = Drop(sf, {GroupKey(req[w])})
        /\ pc' = [x \in Procs |-> IF x = w THEN "idle"
                                  ELSE IF x \in dups THEN "f_ret" ELSE pc[x]]
        /\ v' = [x \in Procs |-> IF x = w THEN NoResultF
                                 ELSE IF x \in dups THEN v[w] ELSE v[x]]
  /\ req' = [req EXCEPT ![w] = NoReqF]
  /\ coal' = [coal EXCEPT ![w] = 0]
  /\ UNCHANGED <<now, rdb, s3, s3c, trail, during>>

\* cache.go:1211 return b, nil; cache.go:1323 return bb, nil in a duplicate
GetF_Return(w) ==
  /\ pc[w] \in {"f_hit", "f_ret"}
  /\ pc' = [pc EXCEPT ![w] = "idle"]
  /\ req' = [req EXCEPT ![w] = NoReqF]
  /\ v' = [v EXCEPT ![w] = NoResultF]
  /\ coal' = EndCoal(w)
  /\ UNCHANGED <<now, rdb, s3, s3c, sf, trail, during>>

NextForce ==
  \/ \E w \in Workers : GetF_Start(w)
  \/ \E w \in Workers : GetF_Redis1(w)
  \/ \E w \in Workers : GetF_SfDo(w)
  \/ \E w \in Workers : GetF_FillRedis2(w)
  \/ \E w \in Workers : GetF_FillS3(w)
  \/ \E w \in Workers : GetF_FillOrigin(w)
  \/ \E w \in Workers : GetF_SfDone(w)
  \/ \E w \in Workers : GetF_Return(w)
  \/ Tick

SpecForce == InitForce /\ [][NextForce]_vars

\* --------------------------------- part_001: the cache without singleflight
LegacyLangs == {"en", "it"}
NestedStr(nested) == IF nested THEN "true" ELSE "false"

\* part_001:167  "tolgee:lang:"+lang+":"+nestedStr
LegacyKey(lang, nested) == "tolgee:lang:" \o lang \o ":" \o NestedStr(nested)

\* part_001:183  redisPut(ctx, "tolgee:lang:"+lang, cached, 0)
LegacyWriteBackKey(lang, nested) == "tolgee:lang:" \o lang

\* GetAllLanguagesAndTranslations: the export of a language in a mode
LegacyBody(lang, nested) == "export:" \o lang \o ":" \o NestedStr(nested)

LegacyKeys == {LegacyKey(l, n) : l \in LegacyLangs, n \in BOOLEAN}
LegacyBodyOf(key) ==
  (CHOOSE b \in {<<LegacyKey(l, n), LegacyBody(l, n)>> : l \in LegacyLangs, n \in BOOLEAN} :
     b[1] = key)[2]

\* s3_keys.go:103  getObject
getObject(key) ==
  {[err |-> IOError, body |-> ""]} \cup
  {IF key \in DOMAIN s3 THEN [err |-> NoErr, body |-> s3[key].body]
                        ELSE [err |-> "NoSuchKey", body |-> ""]}

NotFoundErr == "english translations not found in cache"

InitLegacy ==
  /\ now = 0
  /\ rdb = EmptyMap
  /\ s3c \in BOOLEAN
  /\ s3 = EmptyMap
  /\ sf = EmptyMap
  /\ pc = [p \in Procs |-> "idle"]
  /\ req = [p \in Procs |-> NoReq]
  /\ v = [p \in Procs |-> NoResult]
  /\ trail = [p \in Procs |-> <<>>]
  /\ coal = [p \in Procs |-> 0]
  /\ during = [p \in Procs |-> 0]

\* part_001:73-124  RebuildTheCache; Redis and S3 are each up or down for the
\* whole rebuild, and every error is dropped
RebuildTheCache ==
  /\ \E tolgeeUp, redisUp, s3Up \in BOOLEAN :
       /\ rdb' = IF tolgeeUp /\ redisUp
                 THEN [k \in (DOMAIN rdb) \cup LegacyKeys |->
                         IF k \in LegacyKeys
                         THEN [val |-> LegacyBodyOf(k), exp |-> NoExpiry] ELSE rdb[k]]
                 ELSE rdb
       /\ s3' = IF tolgeeUp /\ s3Up /\ s3c
                THEN [k \in (DOMAIN s3) \cup LegacyKeys |->
                        IF k \in LegacyKeys
                        THEN [body |-> LegacyBodyOf(k), created |-> now] ELSE s3[k]]
                ELSE s3
  /\ UNCHANGED <<now, s3c, sf, pc, req, v, trail, coal, during>>

\* GET /api/translations/:lang of the legacy server: the handler calls
\* GetTranslationsFromCache(ctx, lang, nested)
GetTranslationsFromCache_Start(w) ==
  /\ Idle(w)
  /\ \A x \in Workers : x < w => ~Idle(x)
  /\ \E l \in LegacyLangs, n \in BOOLEAN :
       req' = [req EXCEPT ![w] = [app |-> "", lang |-> l, nested |-> n,
                                  ctx |-> w, done |-> FALSE]]
  /\ pc' = [pc EXCEPT ![w] = "lg_get"]
  /\ UNCHANGED <<now, rdb, s3, s3c, sf, v, trail, coal, during>>

\* part_001:167-170
GetTranslationsFromCache_Redis(w) ==
  /\ pc[w] = "lg_get"
  /\ \E r \in RedisGet(LegacyKey(req[w].lang, req[w].nested)) :
       IF r.err = NoErr /\ r.val # ""
       THEN /\ v' = [v EXCEPT ![w] = Result(r.val)]
            /\ pc' = [pc EXCEPT ![w] = "lg_ret"]
       ELSE /\ pc' = [pc EXCEPT ![w] = "lg_s3"]
            /\ UNCHANGED v
  /\ UNCHANGED <<now, rdb, s3, s3c, sf, req, trail, coal, during>>

\* part_001:188-191: no English means an error, another language falls back
\* to English
LegacyFallback(w) ==
  IF req[w].lang = "en"
  THEN /\ v' = [v EXCEPT ![w] = [val |-> "", err |-> NotFoundErr]]
       /\ pc' = [pc EXCEPT ![w] = "lg_ret"]
       /\ UNCHANGED req
  ELSE /\ req' = [req EXCEPT ![w].lang = "en"]
       /\ pc' = [pc EXCEPT ![w] = "lg_get"]
       /\ UNCHANGED v

\* part_001:172-191: S3, the write-back to Redis, the fallback
GetTranslationsFromCache_S3(w) ==
  /\ pc[w] = "lg_s3"
  /\ IF ~s3c
     THEN LegacyFallback(w) /\ UNCHANGED rdb
     ELSE \E f \in getObject(LegacyKey(req[w].lang, req[w].nested)) :
            IF f.err = NoErr /\ f.body # ""
            THEN \E ok \in BOOLEAN :
                   /\ rdb' = redisPut(rdb, ok, LegacyWriteBackKey(req[w].lang, req[w].nested), f.body, 0)
                   /\ v' = [v EXCEPT ![w] = Result(f.body)]
                   /\ pc' = [pc EXCEPT ![w] = "lg_ret"]
                   /\ UNCHANGED req
            ELSE LegacyFallback(w) /\ UNCHANGED rdb
  /\ UNCHANGED <<now, s3, s3c, sf, trail, coal, during>>

\* the call returns (v.val, v.err) to the handler
GetTranslationsFromCache_Return(w) ==
  /\ pc[w] = "lg_ret"
  /\ pc' = [pc EXCEPT ![w] = "idle"]
  /\ req' = [req EXCEPT ![w] = NoReq]
  /\ v' = [v EXCEPT ![w] = NoResult]
  /\ UNCHANGED <<now, rdb, s3, s3c, sf, trail, coal, during>>

NextLegacy ==
  \/ RebuildTheCache
  \/ \E w \in Workers : GetTranslationsFromCache_Start(w)
  \/ \E w \in Workers : GetTranslationsFromCache_Redis(w)
  \/ \E w \in Workers : GetTranslationsFromCache_S3(w)
  \/ \E w \in Workers : GetTranslationsFromCache_Return(w)

SpecLegacy == InitLegacy /\ [][NextLegacy]_vars

\* --------------------------------------------- the Durable Store alone
\* the log of the PutObject pairs of a behaviour of SpecStore (history)
PutEntry(kind, appID, payload, outcome) ==
  [kind |-> kind, app |-> appID, body |-> payload, at |-> now, outcome |-> outcome]

StoreLang == "en_flat"

EntryVersionKey(e) ==
  IF e.kind = "languages" THEN s3LanguagesVersionKey(e.app, e.at, Sha256Hex(e.body))
  ELSE s3VersionKey(e.app, StoreLang, e.at, Sha256Hex(e.body))

EntryLatestKey(e) ==
  IF e.kind = "languages" THEN s3LanguagesLatestKey(e.app)
  ELSE s3LatestKey(e.app, StoreLang)

InitStore ==
  /\ now = 0
  /\ rdb = EmptyMap
  /\ s3c = TRUE
  /\ s3 = EmptyMap
  /\ sf = EmptyMap
  /\ pc = [p \in Procs |-> "idle"]
  /\ req = [p \in Procs |-> NoReq]
  /\ v = [p \in Procs |-> NoResult]
  /\ trail = [p \in Procs |-> <<>>]
  /\ coal = [p \in Procs |-> 0]
  /\ during = [p \in Procs |-> 0]

\* main.go:116-156  one call of putVersionAndLatest
StorePut(w) ==
  /\ Len(trail[w]) < MaxPuts
  /\ \E a \in AppIDs, p \in Payloads, po \in PutOutcomes :
       /\ s3' = putVersionAndLatest(s3, a, StoreLang, p, po)
       /\ trail' = [trail EXCEPT ![w] = Append(@, PutEntry("translations", a, p, po))]
  /\ UNCHANGED <<now, rdb, s3c, sf, pc, req, v, coal, during>>

\* main.go:190-230  one call of putLanguagesVersionAndLatest
StorePutLanguages(w) ==
  /\ Len(trail[w]) < MaxPuts
  /\ \E a \in AppIDs, p \in Payloads, po \in PutOutcomes :
       /\ s3' = putLanguagesVersionAndLatest(s3, a, p, po)
       /\ trail' = [trail EXCEPT ![w] = Append(@, PutEntry("languages", a, p, po))]
  /\ UNCHANGED <<now, rdb, s3c, sf, pc, req, v, coal, during>>

NextStore ==
  \/ \E w \in OneWorker : StorePut(w)
  \/ \E w \in OneWorker : StorePutLanguages(w)
  \/ Tick

\* the two put functions of main.go applied in any order to one bucket
SpecStore == InitStore /\ [][NextStore]_vars

\* ------------------------------ cache.go:1567-1595 and 1696-1709, the webhook
Secrets == {"", "s1", "s2"}          \* localenv.GetWebhookSecret()
Bodies == {"b1", "b2"}               \* c.Body()

\* fmt.Sprintf("%d.%s", hdr.Timestamp, string(body))
SignedPayload(timestamp, body) == ToString(timestamp) \o "." \o body

\* hex.EncodeToString of the HMAC-SHA256 of the payload under the secret:
\* lower-case hex, one value per (secret, payload)
HexHmac(secret, payload) == "hmac<" \o secret \o "|" \o payload \o ">"

\* the same digits in upper case: equal as a number, not as bytes
UpperHex(sig) == "HMAC" \o sig

\* the Tolgee-Signature header as it arrives: absent, not JSON, or a JSON
\* object (a member that is missing decodes to 0 or "")
NoHeader == [kind |-> "empty", timestamp |-> 0, signature |-> ""]
NotJSON == [kind |-> "garbage", timestamp |-> 0, signature |-> ""]
JSONHeader(timestamp, signature) ==
  [kind |-> "json", timestamp |-> timestamp, signature |-> signature]

\* json.Unmarshal([]byte(rawHeader), &hdr)
Unmarshal(rawHeader) ==
  IF rawHeader.kind = "json"
  THEN [ok |-> TRUE, Timestamp |-> rawHeader.timestamp, Signature |-> rawHeader.signature]
  ELSE [ok |-> FALSE, Timestamp |-> 0, Signature |-> ""]

\* a variant of verifyTolgeeSignature that signs the timestamp alone
verifyTolgeeSignature_NoBody(secret, rawHeader, body, tnow) ==
  IF secret = "" \/ rawHeader.kind = "empty" THEN FALSE
  ELSE LET hdr == Unmarshal(rawHeader) IN
       IF ~hdr.ok THEN FALSE
       ELSE IF hdr.Timestamp <= 0 \/ hdr.Signature = "" THEN FALSE
       ELSE IF \A b \in Bodies : HexHmac(secret, SignedPayload(hdr.Timestamp, b)) # hdr.Signature
            THEN FALSE
       ELSE IF hdr.Timestamp < tnow - signatureMaxAge THEN FALSE
       ELSE TRUE

\* a variant of verifyTolgeeSignature without the check of the age
verifyTolgeeSignature_NoAge(secret, rawHeader, body, tnow) ==
  IF secret = "" \/ rawHeader.kind = "empty" THEN FALSE
  ELSE LET hdr == Unmarshal(rawHeader) IN
       IF ~hdr.ok THEN FALSE
       ELSE IF hdr.Timestamp <= 0 \/ hdr.Signature = "" THEN FALSE
       ELSE IF HexHmac(secret, SignedPayload(hdr.Timestamp, body)) # hdr.Signature THEN FALSE
       ELSE TRUE

\* cache.go:1567  verifyTolgeeSignature, tnow = time.Now()
verifyTolgeeSignature(secret, rawHeader, body, tnow) ==
  IF secret = "" \/ rawHeader.kind = "empty" THEN FALSE
  ELSE LET hdr == Unmarshal(rawHeader) IN
       IF ~hdr.ok THEN FALSE
       ELSE IF hdr.Timestamp <= 0 \/ hdr.Signature = "" THEN FALSE
       ELSE IF HexHmac(secret, SignedPayload(hdr.Timestamp, body)) # hdr.Signature THEN FALSE
       ELSE IF hdr.Timestamp < tnow - signatureMaxAge THEN FALSE
       ELSE TRUE

\* the timestamps a sender can put in the header of a request that arrives
\* at tnow: around the edge of the window, now, ahead of the clock, 0, negative
TimestampsAt(tnow) ==
  {tnow - signatureMaxAge - 1, tnow - signatureMaxAge, tnow - signatureMaxAge + 1,
   tnow, tnow + signatureMaxAge + 1, 0, 0 - 1}

\* the signatures a sender can put next to timestamp t and body b: the MAC of
\* any secret over that or another timestamp and body, in lower or upper
\* case, or nothing
SignaturesFor(t, b) ==
  LET macs == {HexHmac(k, SignedPayload(t2, b2)) :
                 k \in Secrets, t2 \in {t, t + 1}, b2 \in Bodies}
  IN macs \cup {UpperHex(m) : m \in macs} \cup {""}

NoHook == [secret |-> "", header |-> NoHeader, body |-> ""]
NoVerdict == [val |-> "", err |-> NoErr, at |-> 0]

InitVerify ==
  /\ now = 0
  /\ rdb = EmptyMap
  /\ s3c = TRUE
  /\ s3 = EmptyMap
  /\ sf = EmptyMap
  /\ pc = [p \in Procs |-> "idle"]
  /\ req = [p \in Procs |-> NoHook]
  /\ v = [p \in Procs |-> NoVerdict]
  /\ trail = [p \in Procs |-> <<>>]
  /\ coal = [p \in Procs |-> 0]
  /\ during = [p \in Procs |-> 0]

\* cache.go:1698-1700: a request on /api/update arrives
UpdateHandler_Receive(w) ==
  /\ Idle(w)
  /\ \E k \in Secrets, b \in Bodies :
     \E h \in {NoHeader, NotJSON} \cup
              UNION {{JSONHeader(t, g) : g \in SignaturesFor(t, b)} : t \in TimestampsAt(now)} :
       req' = [req EXCEPT ![w] = [secret |-> k, header |-> h, body |-> b]]
  /\ pc' = [pc EXCEPT ![w] = "wh_verify"]
  /\ UNCHANGED <<now, rdb, s3, s3c, sf, v, trail, coal, during>>

\* cache.go:1701-1705: the signature is verified, at the time of the check
UpdateHandler_Verify(w) ==
  /\ pc[w] = "wh_verify"
  /\ v' = [v EXCEPT ![w] =
             [val |-> IF verifyTolgeeSignature(req[w].secret, req[w].header, req[w].body, now)
                      THEN "accepted" ELSE "401",
              err |-> NoErr, at |-> now]]
  /\ pc' = [pc EXCEPT ![w] = "wh_done"]
  /\ UNCHANGED <<now, rdb, s3, s3c, sf, req, trail, coal, during>>

\* cache.go:1703 and 1707: the handler answers
UpdateHandler_Return(w) ==
  /\ pc[w] = "wh_done"
  /\ pc' = [pc EXCEPT ![w] = "idle"]
  /\ req' = [req EXCEPT ![w] = NoHook]
  /\ v' = [v EXCEPT ![w] = NoVerdict]
  /\ UNCHANGED <<now, rdb, s3, s3c, sf, trail, coal, during>>

NextVerify ==
  \/ \E w \in OneWorker : UpdateHandler_Receive(w)
  \/ \E w \in OneWorker : UpdateHandler_Verify(w)
  \/ \E w \in OneWorker : UpdateHandler_Return(w)
  \/ Tick

\* the webhook of cache.go up to the verdict on the signature
SpecVerify == InitVerify /\ [][NextVerify]_vars

\* ----------------------- cache.go:1597-1709, the rebuild behind the webhook
LangTags == {"en", "it"}
BlankTag == " "                      \* strings.TrimSpace(l.Tag) == ""
TagLists == {<<"en">>, <<"en", BlankTag, "it">>}

RECURSIVE JoinTags(_)
JoinTags(tags) ==
  IF tags = <<>> THEN ""
  ELSE "{tag:" \o Head(tags) \o "}" \o (IF Len(tags) > 1 THEN "," ELSE "") \o JoinTags(Tail(tags))

\* what /v2/projects/languages answers: a JSON array of language records, or
\* the hypermedia envelope of part_003 with the records under _embedded.languages
JSONArray(tags) == "[" \o JoinTags(tags) \o "]"
JSONEnvelope(tags) == "{_embedded:{languages:[" \o JoinTags(tags) \o "]},_links:{},page:{}}"

LanguagesBodies == {JSONArray(t) : t \in TagLists} \cup {JSONEnvelope(t) : t \in TagLists}

\* the tags of the records of a body of /v2/projects/languages
TagsOf(body) ==
  CHOOSE t \in TagLists : body \in {JSONArray(t), JSONEnvelope(t)}

\* cache.go:1394-1416: what one languages call can end in
LanguagesOutcomes == {"transport error", "non-2xx", "empty body"} \cup LanguagesBodies

\* cache.go:1610  json.Unmarshal(langsPayload, &langs), langs a []tolgeeLanguage:
\* a JSON array decodes, a JSON object ("{}" and the envelope) is an error
UnmarshalLangs(payload) ==
  IF \E t \in TagLists : payload = JSONArray(t)
  THEN [ok |-> TRUE, langs |-> TagsOf(payload)]
  ELSE [ok |-> FALSE, langs |-> <<>>]

\* the arguments of the forced calls of refreshAppTranslations
LanguagesCall == [app |-> "app", lang |-> "", nested |-> FALSE,
                  res |-> "languages", force |-> TRUE, child |-> 1]
TranslationsCall(tag, nested) == [app |-> "app", lang |-> tag, nested |-> nested,
                                  res |-> "translations", force |-> TRUE, child |-> 1]

\* updateSummary (cache.go:1465); App, StartedAt and FinishedAt are left out
NoSummary == [languages |-> <<>>, refreshed |-> 0, failures |-> <<>>]

\* the request of the webhook, where refreshAppTranslations is in its loop, and
\* what the write-backs of this rebuild meet: Redis is up or down and the
\* bucket behaves in one way for the whole rebuild
NoUpdate == [secret |-> "", header |-> NoHeader, body |-> "",
             langs |-> <<>>, i |-> 0, nested |-> FALSE, redisUp |-> TRUE, put |-> "ok"]
\* the verdict, the payload of the languages, the summary, the answer
NoAnswer == [val |-> "", err |-> NoErr, at |-> 0, payload |-> "", summary |-> NoSummary]

InitRebuild ==
  /\ now = 0
  /\ rdb = EmptyMap
  /\ s3c = TRUE
  /\ s3 = EmptyMap
  /\ sf = EmptyMap
  /\ pc = [p \in Procs |-> "idle"]
  /\ req = [p \in Procs |-> NoUpdate]
  /\ v = [p \in Procs |-> NoAnswer]
  /\ trail = [p \in Procs |-> <<>>]
  /\ coal = [p \in Procs |-> 0]
  /\ during = [p \in Procs |-> 0]

\* the requests a sender can make at tnow: unsigned, or signed by the holder
\* of "s1"; during[w] counts the rebuilds that handler w has started
UpdateHeaders(w, tnow) ==
  {NoHeader} \cup
  (IF during[w] < MaxRebuilds
   THEN {JSONHeader(tnow + 1, HexHmac("s1", SignedPayload(tnow + 1, "b1")))} ELSE {})

\* cache.go:1698-1700: a request on /api/update; the secret of the server is
\* any of Secrets
Update_Receive(w) ==
  /\ Idle(w)
  /\ \E k \in Secrets, ok \in BOOLEAN, po \in PutOutcomes :
     \E h \in UpdateHeaders(w, now) :
       req' = [req EXCEPT ![w] = [NoUpdate EXCEPT !.secret = k, !.header = h, !.body = "b1",
                                                  !.redisUp = ok, !.put = po]]
  /\ pc' = [pc EXCEPT ![w] = "up_verify"]
  /\ UNCHANGED <<now, rdb, s3, s3c, sf, v, trail, coal, during>>

\* a variant of the handler that rebuilds whatever the verdict on the signature
Update_Verify_Always(w) ==
  /\ pc[w] = "up_verify"
  /\ v' = [v EXCEPT ![w] = [NoAnswer EXCEPT !.at = now]]
  /\ pc' = [pc EXCEPT ![w] = "up_langs"]
  /\ during' = [during EXCEPT ![w] = @ + 1]
  /\ UNCHANGED <<now, rdb, s3, s3c, sf, req, trail, coal>>

\* cache.go:1701-1706: 401 when the signature is not verified, else
\* refreshAppTranslations(c.Context(), s3c, appKey, true) is entered
Update_Verify(w) ==
  /\ pc[w] = "up_verify"
  /\ IF verifyTolgeeSignature(req[w].secret, req[w].header, req[w].body, now)
     THEN /\ v' = [v EXCEPT ![w] = [NoAnswer EXCEPT !.at = now]]
          /\ pc' = [pc EXCEPT ![w] = "up_langs"]
          /\ during' = [during EXCEPT ![w] = @ + 1]
     ELSE /\ v' = [v EXCEPT ![w] = [NoAnswer EXCEPT !.at = now, !.val = "401"]]
          /\ pc' = [pc EXCEPT ![w] = "up_resp"]
          /\ UNCHANGED during
  /\ UNCHANGED <<now, rdb, s3, s3c, sf, req, trail, coal>>

\* cache.go:1602 getLanguagesCached(ctx, s3c, appID, true): the forced call
\* skips Redis and S3 (cache.go:1332, 1353), asks Tolgee and writes a body
\* back; its error is always nil.  The trail keeps the body, or "failed".
Rebuild_Languages(w) ==
  /\ pc[w] = "up_langs"
  /\ \E o \in LanguagesOutcomes :
       IF o \notin LanguagesBodies
       THEN /\ trail' = Append1(w, "languages", "failed")
            /\ v' = [v EXCEPT ![w].payload = Sentinel]
            /\ UNCHANGED <<rdb, s3>>
       ELSE /\ trail' = Append1(w, "languages", o)
            /\ rdb' = WriteBackF(LanguagesCall, o, req[w].redisUp, req[w].redisUp)
            /\ s3' = IF s3c THEN putF(LanguagesCall, o, req[w].put) ELSE s3
            /\ v' = [v EXCEPT ![w].payload = o]
  /\ pc' = [pc EXCEPT ![w] = "up_decode"]
  /\ UNCHANGED <<now, s3c, sf, req, coal, during>>

\* cache.go:1609-1614: the payload is decoded; a failure ends the rebuild
Rebuild_Decode(w) ==
  /\ pc[w] = "up_decode"
  /\ LET d == UnmarshalLangs(v[w].payload) IN
     IF d.ok
     THEN /\ req' = [req EXCEPT ![w].langs = d.langs, ![w].i = 1, ![w].nested = FALSE]
          /\ pc' = [pc EXCEPT ![w] = "up_fetch"]
          /\ UNCHANGED v
     ELSE /\ v' = [v EXCEPT ![w].summary.failures = Append(@, "languages decode failed"),
                            ![w].val = "200"]
          /\ pc' = [pc EXCEPT ![w] = "up_resp"]
          /\ UNCHANGED req
  /\ UNCHANGED <<now, rdb, s3, s3c, sf, trail, coal, during>>

\* where the loop of cache.go:1615 goes after the call for (i, nested)
NextFetch(r) ==
  IF r.nested THEN [r EXCEPT !.i = @ + 1, !.nested = FALSE] ELSE [r EXCEPT !.nested = TRUE]

\* the summary after the call for tag in a mode returned e
Counted(summary, tag, nested, e) ==
  LET s1 == IF nested THEN summary ELSE [summary EXCEPT !.languages = Append(@, tag)]
  IN IF e # NoErr
     THEN [s1 EXCEPT !.failures = Append(@, tag \o " " \o Mode(nested) \o ": " \o e)]
     ELSE [s1 EXCEPT !.refreshed = @ + 1]

\* cache.go:1615-1630: one pass of the loop head, or one forced
\* getTranslationsCached(ctx, s3c, appID, l.Tag, nested, true) of the body;
\* the call returns a nil error whatever Tolgee answers (cache.go:1282-1298)
Rebuild_Fetch(w) ==
  /\ pc[w] = "up_fetch"
  /\ LET r == req[w] IN
     IF r.i > Len(r.langs)
     THEN /\ v' = [v EXCEPT ![w].val = "200"]
          /\ pc' = [pc EXCEPT ![w] = "up_resp"]
          /\ UNCHANGED <<req, rdb, s3, trail>>
     ELSE IF r.langs[r.i] = BlankTag
     THEN /\ req' = [req EXCEPT ![w].i = @ + 1]
          /\ UNCHANGED <<pc, v, rdb, s3, trail>>
     ELSE \E o \in OriginOutcomes :
            LET call == TranslationsCall(r.langs[r.i], r.nested) IN
            /\ IF o \notin Payloads
               THEN /\ trail' = Append1(w, CacheKey(call), "failed")
                    /\ UNCHANGED <<rdb, s3>>
               ELSE /\ trail' = Append1(w, CacheKey(call), o)
                    /\ rdb' = WriteBackF(call, o, r.redisUp, r.redisUp)
                    /\ s3' = IF s3c THEN putF(call, o, r.put) ELSE s3
            /\ v' = [v EXCEPT ![w].summary = Counted(@, r.langs[r.i], r.nested, NoErr)]
            /\ req' = [req EXCEPT ![w] = NextFetch(r)]
            /\ UNCHANGED pc
  /\ UNCHANGED <<now, s3c, sf, coal, during>>

\* cache.go:1703 and 1707: the handler answers v.val, with v.summary on 200
Update_Respond(w) ==
  /\ pc[w] = "up_resp"
  /\ pc' = [pc EXCEPT ![w] = "idle"]
  /\ req' = [req EXCEPT ![w] = NoUpdate]
  /\ v' = [v EXCEPT ![w] = NoAnswer]
  /\ trail' = [trail EXCEPT ![w] = <<>>]
  /\ UNCHANGED <<now, rdb, s3, s3c, sf, coal, during>>

NextRebuild ==
  \/ \E w \in OneWorker : Update_Receive(w)
  \/ \E w \in OneWorker : Update_Verify(w)
  \/ \E w \in OneWorker : Rebuild_Languages(w)
  \/ \E w \in OneWorker : Rebuild_Decode(w)
  \/ \E w \in OneWorker : Rebuild_Fetch(w)
  \/ \E w \in OneWorker : Update_Respond(w)
  \/ Tick

\* the webhook of cache.go:1696 with the rebuild of cache.go:1597, one request
\* at a time
SpecRebuild == InitRebuild /\ [][NextRebuild]_vars


\* ------------- cache.go:865-919 and part_001:73-124, the webhook of the
\* server without singleflight, RebuildTheCache followed call by call
LegacyLanguagesKey == "tolgee:languages"                 \* part_001:82
LegacyLanguagesBody == JSONEnvelope(<<"en", "it">>)      \* the body GetLanguages returns

\* the request of the webhook and what the writes of its rebuild meet
NoLegacyUpdate == [secret |-> "", header |-> NoHeader, body |-> "",
                   redisUp |-> TRUE, s3Up |-> TRUE]
\* the answer: the status, and what the body of the response carries
NoLegacyAnswer == [val |-> "", err |-> NoErr, at |-> 0, carries |-> ""]

InitLegacyUpdate ==
  /\ now = 0
  /\ rdb = EmptyMap
  /\ s3c \in BOOLEAN
  /\ s3 = EmptyMap
  /\ sf = EmptyMap
  /\ pc = [p \in Procs |-> "idle"]
  /\ req = [p \in Procs |-> NoLegacyUpdate]
  /\ v = [p \in Procs |-> NoLegacyAnswer]
  /\ trail = [p \in Procs |-> <<>>]
  /\ coal = [p \in Procs |-> 0]
  /\ during = [p \in Procs |-> 0]

\* redisPut(rootCtx, key, body, 0) and s3c.putObject(rootCtx, key, body, ...)
\* of part_001:82, 93, 105-108, 119-122: errors dropped
\* (bodies: the body to put under each key)
LegacyRedisPuts(store, up, bodies) ==
  IF ~up THEN store
  ELSE [k \in (DOMAIN store) \cup (DOMAIN bodies) |->
          IF k \in DOMAIN bodies THEN [val |-> bodies[k], exp |-> NoExpiry] ELSE store[k]]

LegacyS3Puts(bucket, up, bodies) ==
  IF ~up THEN bucket
  ELSE [k \in (DOMAIN bucket) \cup (DOMAIN bodies) |->
          IF k \in DOMAIN bodies THEN [body |-> bodies[k], created |-> now] ELSE bucket[k]]

LegacyLanguagesBodies == [k \in {LegacyLanguagesKey} |-> LegacyLanguagesBody]

\* cache.go:909-911: a request on /api/update
LegacyUpdate_Receive(w) ==
  /\ Idle(w)
  /\ \E k \in Secrets, rUp \in BOOLEAN, sUp \in BOOLEAN :
     \E h \in {NoHeader, JSONHeader(now + 1, HexHmac("s1", SignedPayload(now + 1, "b1")))} :
       req' = [req EXCEPT ![w] = [secret |-> k, header |-> h, body |-> "b1",
                                  redisUp |-> rUp, s3Up |-> sUp]]
  /\ pc' = [pc EXCEPT ![w] = "lu_verify"]
  /\ UNCHANGED <<now, rdb, s3, s3c, sf, v, trail, coal, during>>

\* cache.go:912-915: 401 with a JSON error, else RebuildTheCache() is entered
LegacyUpdate_Verify(w) ==
  /\ pc[w] = "lu_verify"
  /\ IF verifyTolgeeSignature(req[w].secret, req[w].header, req[w].body, now)
     THEN /\ v' = [v EXCEPT ![w] = [NoLegacyAnswer EXCEPT !.at = now]]
          /\ pc' = [pc EXCEPT ![w] = "lu_langs"]
     ELSE /\ v' = [v EXCEPT ![w] = [NoLegacyAnswer EXCEPT !.at = now, !.val = "401",
                                                          !.carries = "error"]]
          /\ pc' = [pc EXCEPT ![w] = "lu_resp"]
  /\ UNCHANGED <<now, rdb, s3, s3c, sf, req, trail, coal, during>>

\* part_001:77-94: GetLanguages; an error or an empty body ends the rebuild
RebuildTheCache_Languages(w) ==
  /\ pc[w] = "lu_langs"
  /\ \E tolgeeUp \in BOOLEAN :
       IF ~tolgeeUp
       THEN /\ trail' = Append1(w, "languages", "failed")
            /\ pc' = [pc EXCEPT ![w] = "lu_ok"]
            /\ UNCHANGED <<rdb, s3>>
       ELSE /\ trail' = Append1(w, "languages", "ok")
            /\ rdb' = LegacyRedisPuts(rdb, req[w].redisUp, LegacyLanguagesBodies)
            /\ s3' = LegacyS3Puts(s3, req[w].s3Up /\ s3c, LegacyLanguagesBodies)
            /\ pc' = [pc EXCEPT ![w] = "lu_flat"]
  /\ UNCHANGED <<now, s3c, sf, req, v, coal, during>>

\* part_001:96-108 (flat) and 110-122 (nested): GetAllLanguagesAndTranslations
\* exports every language in one call; on its error RebuildTheCache returns
RebuildTheCache_Mode(w) ==
  /\ pc[w] \in {"lu_flat", "lu_nested"}
  /\ LET nested == pc[w] = "lu_nested"
         keys == {LegacyKey(l, nested) : l \in LegacyLangs}
     IN \E tolgeeUp \in BOOLEAN :
       IF ~tolgeeUp
       THEN /\ trail' = Append1(w, Mode(nested), "failed")
            /\ pc' = [pc EXCEPT ![w] = "lu_ok"]
            /\ UNCHANGED <<rdb, s3>>
       ELSE /\ trail' = Append1(w, Mode(nested), "ok")
            /\ rdb' = LegacyRedisPuts(rdb, req[w].redisUp, [k \in keys |-> LegacyBodyOf(k)])
            /\ s3' = LegacyS3Puts(s3, req[w].s3Up /\ s3c, [k \in keys |-> LegacyBodyOf(k)])
            /\ pc' = [pc EXCEPT ![w] = IF nested THEN "lu_ok" ELSE "lu_nested"]
  /\ UNCHANGED <<now, s3c, sf, req, v, coal, during>>

\* cache.go:917  return c.SendStatus(http.StatusOK): the status, and its text
\* as the body
LegacyUpdate_Ok(w) ==
  /\ pc[w] = "lu_ok"
  /\ v' = [v EXCEPT ![w].val = "200", ![w].carries = "status text"]
  /\ pc' = [pc EXCEPT ![w] = "lu_resp"]
  /\ UNCHANGED <<now, rdb, s3, s3c, sf, req, trail, coal, during>>

\* the response leaves the server
LegacyUpdate_Respond(w) ==
  /\ pc[w] = "lu_resp"
  /\ pc' = [pc EXCEPT ![w] = "idle"]
  /\ req' = [req EXCEPT ![w] = NoLegacyUpdate]
  /\ v' = [v EXCEPT ![w] = NoLegacyAnswer]
  /\ trail' = [trail EXCEPT ![w] = <<>>]
  /\ UNCHANGED <<now, rdb, s3, s3c, sf, coal, during>>

NextLegacyUpdate ==
  \/ \E w \in OneWorker : LegacyUpdate_Receive(w)
  \/ \E w \in OneWorker : LegacyUpdate_Verify(w)
  \/ \E w \in OneWorker : RebuildTheCache_Languages(w)
  \/ \E w \in OneWorker : RebuildTheCache_Mode(w)
  \/ \E w \in OneWorker : LegacyUpdate_Ok(w)
  \/ \E w \in OneWorker : LegacyUpdate_Respond(w)
  \/ Tick

\* the webhook of cache.go:907 with RebuildTheCache of part_001, one request
\* at a time
SpecLegacyUpdate == InitLegacyUpdate /\ [][NextLegacyUpdate]_vars


\* ------------------------------------------- cache.go:1195-1446, progress
\* What the scheduler and the timeouts guarantee to a call of the server of
\* cache.go.  A goroutine that can take a step takes it; a Redis call ends (the
\* go-redis client has dial, read and write timeouts) and an S3 call is taken to
\* end.  The Tolgee call is made with SetTimeout(0) (cache.go:1263, 1394) under
\* the context of the request, which has no deadline: it ends only when Tolgee
\* answers, so nothing guarantees the step GetF_FillOrigin.
FairForce ==
  \A w \in Workers :
    /\ WF_vars(GetF_Redis1(w))
    /\ WF_vars(GetF_SfDo(w))
    /\ WF_vars(GetF_FillRedis2(w))
    /\ WF_vars(GetF_FillS3(w))
    /\ WF_vars(GetF_SfDone(w))
    /\ WF_vars(GetF_Return(w))

\* SpecForce with the progress that the code guarantees
SpecForceLive == InitForce /\ [][NextForce]_vars /\ FairForce


\* ------------------------- main.go:300-307, 460-461, 626-656, the key strings
\* main.go:627, 638-639  c.Params("app"), c.Params("lang"): one segment of the
\* path each, any text without "/", a colon included
AppSegments == {"a", "a:b", "x", "x:fetched_utc"}
LangSegments == {"c", "b:c"}

\* the logical resources of the two routes: the languages of an app, and the
\* translations of an app in a language and a mode
KeyResources ==
  [res : {"languages"}, app : AppSegments, lang : {""}, nested : {FALSE}]
    \cup [res : {"translations"}, app : AppSegments, lang : LangSegments, nested : BOOLEAN]

NoKeyReq == [res |-> "", app |-> "", lang |-> "", nested |-> FALSE]
NoKeys == [val |-> "", err |-> NoErr, at |-> ""]

\* main.go:460  redisKey := "languages:" + appID
LanguagesRedisKey(appID) == "languages:" \o appID

\* main.go:306 and 460: the key of the value of a resource
ResourceKey(r) ==
  IF r.res = "languages" THEN LanguagesRedisKey(r.app)
  ELSE TranslationsRedisKey(r.app, r.lang, r.nested)

\* main.go:307 and 461  fetchedAtKey := redisKey + redisFetchedAtSuffix
ResourceFetchedAtKey(r) == ResourceKey(r) \o redisFetchedAtSuffix

InitKeys ==
  /\ now = 0
  /\ rdb = EmptyMap
  /\ s3c = TRUE
  /\ s3 = EmptyMap
  /\ sf = EmptyMap
  /\ pc = [p \in Procs |-> "idle"]
  /\ req = [p \in Procs |-> NoKeyReq]
  /\ v = [p \in Procs |-> NoKeys]
  /\ trail = [p \in Procs |-> <<>>]
  /\ coal = [p \in Procs |-> 0]
  /\ during = [p \in Procs |-> 0]

\* main.go:626-627, 637-639: a request on /api/:app or /api/:app/:lang
Keys_Receive(w) ==
  /\ Idle(w)
  /\ \E r \in KeyResources : req' = [req EXCEPT ![w] = r]
  /\ pc' = [pc EXCEPT ![w] = "k_key"]
  /\ UNCHANGED <<now, rdb, s3, s3c, sf, v, trail, coal, during>>

\* main.go:306-307, 460-461: the two key strings of the request
Keys_Build(w) ==
  /\ pc[w] = "k_key"
  /\ v' = [v EXCEPT ![w] = [val |-> ResourceKey(req[w]), err |-> NoErr,
                            at |-> ResourceFetchedAtKey(req[w])]]
  /\ pc' = [pc EXCEPT ![w] = "k_done"]
  /\ UNCHANGED <<now, rdb, s3, s3c, sf, req, trail, coal, during>>

\* main.go:635, 655: the handler answers
Keys_Return(w) ==
  /\ pc[w] = "k_done"
  /\ pc' = [pc EXCEPT ![w] = "idle"]
  /\ req' = [req EXCEPT ![w] = NoKeyReq]
  /\ v' = [v EXCEPT ![w] = NoKeys]
  /\ UNCHANGED <<now, rdb, s3, s3c, sf, trail, coal, during>>

NextKeys ==
  \/ \E w \in Workers : Keys_Receive(w)
  \/ \E w \in Workers : Keys_Build(w)
  \/ \E w \in Workers : Keys_Return(w)

\* the key strings of the requests of the two routes of main.go
SpecKeys == InitKeys /\ [][NextKeys]_vars


\* --------------------- main.go:284-291, 311-371: the refreshes of one request
\* a request for app/en/flat has just entered getTranslationsCached on a server
\* whose Redis is empty and whose bucket holds a latest object; no other
\* request arrives
InitChain ==
  /\ now = 0
  /\ rdb = EmptyMap
  /\ s3c = TRUE
  /\ s3 = putVersionAndLatest(EmptyMap, "app", "en_flat", "p1", "ok")
  /\ sf = EmptyMap
  /\ pc = [p \in Procs |-> IF p = 1 THEN "get" ELSE "idle"]
  /\ req = [p \in Procs |->
              IF p = 1
              THEN [app |-> "app", lang |-> "en", nested |-> FALSE, ctx |-> 1, done |-> FALSE]
              ELSE NoReq]
  /\ v = [p \in Procs |-> NoResult]
  /\ trail = [p \in Procs |-> <<>>]
  /\ coal = [p \in Procs |-> 0]
  /\ during = [p \in Procs |-> 0]

NextChain ==
  \/ \E w \in Procs : Get1(w)
  \/ \E w \in Procs : SfDo(w)
  \/ \E w \in Procs : FillRedis2(w)
  \/ \E w \in Procs : FillS3(w)
  \/ \E w \in Procs : FillOrigin(w)
  \/ \E w \in Procs : SfDone(w)
  \/ \E w \in Procs : ReturnHit(w)
  \/ \E w \in Procs : Return(w)
  \/ \E w \in Procs : ScheduleRefresh(w)
  \/ \E w \in Procs : RefreshSpawn(w, Tasks)
  \/ Tick

\* every step of a call is taken once it can be: the steps are local, or calls
\* that end (the go-redis client has dial, read and write timeouts, the Tolgee
\* client SetTimeout(10 * time.Second), main.go:390), and the goroutines are
\* scheduled by the runtime
FairChain ==
  \A w \in Procs :
    /\ WF_vars(Get1(w))
    /\ WF_vars(SfDo(w))
    /\ WF_vars(FillRedis2(w))
    /\ WF_vars(FillS3(w))
    /\ WF_vars(FillOrigin(w))
    /\ WF_vars(SfDone(w))
    /\ WF_vars(ReturnHit(w))
    /\ WF_vars(Return(w))
    /\ WF_vars(ScheduleRefresh(w))
    /\ WF_vars(RefreshSpawn(w, Tasks))

\* one request and the refresh goroutines that follow from it
SpecChain == InitChain /\ [][NextChain]_vars /\ FairChain


\* ------------------- main.go:232-236, 311-331, 427-430: the age of an entry
\* time passes in steps that are shorter than redisValueTTL and staleAfter
FineSteps == {5}

TickFine ==
  /\ \E d \in FineSteps :
       /\ now + d <= MaxTime
       /\ now' = now + d
       /\ rdb' = Drop(rdb, {k \in DOMAIN rdb : rdb[k].exp # NoExpiry /\ rdb[k].exp <= now + d})
  /\ UNCHANGED <<s3, s3c, sf, pc, req, v, trail, coal, during>>

\* a time before the clock of the model starts, and a bucket whose objects
\* for app/en/flat were written then (s3Client.putVersionAndLatest, main.go:116)
BeforeStart == 0 - 20
OldObject == [body |-> "p1", created |-> BeforeStart]
OldBucket ==
  Put(Put(EmptyMap, s3VersionKey("app", "en_flat", BeforeStart, Sha256Hex("p1")), OldObject),
      s3LatestKey("app", "en_flat"), OldObject)

InitAge ==
  /\ now = 0
  /\ rdb = EmptyMap
  /\ s3c = TRUE
  /\ s3 \in {EmptyMap, OldBucket}
  /\ sf = EmptyMap
  /\ pc = [p \in Procs |-> "idle"]
  /\ req = [p \in Procs |-> NoReq]
  /\ v = [p \in Procs |-> NoResult]
  /\ trail = [p \in Procs |-> <<>>]
  /\ coal = [p \in Procs |-> 0]
  /\ during = [p \in Procs |-> 0]

NextAge ==
  \/ \E w \in OneWorker : Start(w)
  \/ \E w \in Procs : Get1(w)
  \/ \E w \in Procs : SfDo(w)
  \/ \E w \in Procs : FillRedis2(w)
  \/ \E w \in Procs : FillS3(w)
  \/ \E w \in Procs : FillOrigin(w)
  \/ \E w \in Procs : SfDone(w)
  \/ \E w \in Procs : ReturnHit(w)
  \/ \E w \in Procs : Return(w)
  \/ \E w \in Procs : ScheduleRefresh(w)
  \/ \E w \in Procs : RefreshSpawn(w, OneTask)
  \/ TickFine

\* main.go with one request worker, one refresh goroutine and a fine clock
SpecAge == InitAge /\ [][NextAge]_vars


\* ---------------- cache.go:1725-1769, makeTranslationsHandler and its lookups
HandlerLangs == {"en", "it"}     \* the languages of the project
RequestedLangs == {"", "en", "it", "fr"}          \* c.Params("lang"), normalised
AcceptLanguages == {<<>>, <<"it">>, <<"fr", "it">>}   \* the parsed Accept-Language

\* cache.go:1485-1519: the tags of a languages payload; the sentinel has none
availableLanguagesFromPayload(found) == IF found THEN HandlerLangs ELSE {}

\* cache.go:1541-1564: the first preferred language that is available
RECURSIVE pickLanguage(_, _)
pickLanguage(preferred, available) ==
  IF available = {} \/ preferred = <<>> THEN ""
  ELSE IF Head(preferred) \in available THEN Head(preferred)
  ELSE pickLanguage(Tail(preferred), available)

\* cache.go:1740-1752: the requested language when it is available, else the
\* preferred one, else "en"
TargetOf(requested, preferred, available) ==
  LET first == IF requested = "" THEN pickLanguage(preferred, available) ELSE requested
  IN IF first = "" \/ first \notin available
     THEN (IF pickLanguage(preferred, available) = "" THEN "en"
           ELSE pickLanguage(preferred, available))
     ELSE first

HandlerCall(res, lang) ==
  [app |-> "app", lang |-> lang, nested |-> FALSE, res |-> res, force |-> FALSE, child |-> 1]

\* the body that Tolgee answers for the resource of r
ExportOf(r) ==
  IF r.res = "languages" THEN JSONArray(<<"en", "it">>)
  ELSE TolgeeBody(now) \o "/" \o r.lang

\* cache.go:1195-1325 and 1327-1446 with force = false, as one call: what the
\* call returns and what it leaves in Redis and in the bucket.  A read of
\* Redis or of S3 can fail, so every deeper tier can be the one that answers;
\* found tells a payload from the sentinel of a failed export; err is nil on
\* every path (cache.go:1312-1324).
TraverseF(r) ==
  LET key == CacheKey(r)
      lk == LatestKeyF(r)
  IN
  (IF key \in DOMAIN rdb
   THEN {[val |-> rdb[key].val, err |-> NoErr, found |-> TRUE, rdb |-> rdb, s3 |-> s3]}
   ELSE {})
  \cup
  (IF s3c /\ lk \in DOMAIN s3
   THEN {[val |-> s3[lk].body, err |-> NoErr, found |-> TRUE,
          rdb |-> WriteBackF(r, s3[lk].body, ok1, ok2), s3 |-> s3] :
           ok1 \in BOOLEAN, ok2 \in BOOLEAN}
   ELSE {})
  \cup
  {[val |-> Sentinel, err |-> NoErr, found |-> FALSE, rdb |-> rdb, s3 |-> s3]}
  \cup
  {[val |-> ExportOf(r), err |-> NoErr, found |-> TRUE,
    rdb |-> WriteBackF(r, ExportOf(r), ok1, ok2),
    s3 |-> IF s3c THEN putF(r, ExportOf(r), po) ELSE s3] :
     ok1 \in BOOLEAN, ok2 \in BOOLEAN, po \in PutOutcomes}

NoHandlerReq == [target |-> "", available |-> {}]
NoHandlerAnswer == [val |-> "", err |-> NoErr, lang |-> "", status |-> ""]

InitHandler ==
  /\ now = 0
  /\ rdb = EmptyMap
  /\ s3c \in BOOLEAN
  /\ s3 = EmptyMap
  /\ sf = EmptyMap
  /\ pc = [p \in Procs |-> "idle"]
  /\ req = [p \in Procs |-> NoHandlerReq]
  /\ v = [p \in Procs |-> NoHandlerAnswer]
  /\ trail = [p \in Procs |-> <<>>]
  /\ coal = [p \in Procs |-> 0]
  /\ during = [p \in Procs |-> 0]

\* cache.go:1727-1737: a request on /api/translations/:lang; the languages of
\* the project are looked up
Handler_Languages(w) ==
  /\ Idle(w)
  /\ \E t \in TraverseF(HandlerCall("languages", "")) :
       /\ rdb' = t.rdb
       /\ s3' = t.s3
       /\ req' = [req EXCEPT ![w].available = availableLanguagesFromPayload(t.found)]
  /\ pc' = [pc EXCEPT ![w] = "h_target"]
  /\ UNCHANGED <<now, s3c, sf, v, trail, coal, during>>

\* cache.go:1728, 1738-1752: the target is the requested language, or the one
\* picked from Accept-Language, or "en"
Handler_Target(w) ==
  /\ pc[w] = "h_target"
  /\ \E l \in RequestedLangs, pref \in AcceptLanguages :
       req' = [req EXCEPT ![w].target = TargetOf(l, pref, req[w].available)]
  /\ pc' = [pc EXCEPT ![w] = "h_lookup"]
  /\ UNCHANGED <<now, rdb, s3, s3c, sf, v, trail, coal, during>>

\* 200 with the data and Content-Language (cache.go:1760-1767)
HandlerAnswer(data, target) ==
  [val |-> IF data = "" THEN Sentinel ELSE data, err |-> NoErr,
   lang |-> target, status |-> "200"]

\* cache.go:1754-1767: the lookup of the target and, when it returns an error
\* or no bytes and the target is not "en", the lookup of "en" (a lookup that
\* returns no bytes has written nothing); the trail keeps the lookups made
Handler_Lookup(w) ==
  /\ pc[w] = "h_lookup"
  /\ \E t \in TraverseF(HandlerCall("translations", req[w].target)) :
       IF (t.err # NoErr \/ t.val = "") /\ req[w].target # "en"
       THEN \E u \in TraverseF(HandlerCall("translations", "en")) :
              /\ rdb' = u.rdb
              /\ s3' = u.s3
              /\ trail' = [trail EXCEPT ![w] =
                             <<[lang |-> req[w].target, val |-> t.val, found |-> t.found],
                               [lang |-> "en", val |-> u.val, found |-> u.found]>>]
              /\ req' = [req EXCEPT ![w].target = "en"]
              /\ v' = [v EXCEPT ![w] = HandlerAnswer(u.val, "en")]
       ELSE /\ rdb' = t.rdb
            /\ s3' = t.s3
            /\ trail' = [trail EXCEPT ![w] =
                           <<[lang |-> req[w].target, val |-> t.val, found |-> t.found]>>]
            /\ v' = [v EXCEPT ![w] = HandlerAnswer(t.val, req[w].target)]
            /\ UNCHANGED req
  /\ pc' = [pc EXCEPT ![w] = "h_resp"]
  /\ UNCHANGED <<now, s3c, sf, coal, during>>

\* cache.go:1767: the handler answers
Handler_Respond(w) ==
  /\ pc[w] = "h_resp"
  /\ pc' = [pc EXCEPT ![w] = "idle"]
  /\ req' = [req EXCEPT ![w] = NoHandlerReq]
  /\ v' = [v EXCEPT ![w] = NoHandlerAnswer]
  /\ trail' = [trail EXCEPT ![w] = <<>>]
  /\ UNCHANGED <<now, rdb, s3, s3c, sf, coal, during>>

NextHandler ==
  \/ \E w \in OneWorker : Handler_Languages(w)
  \/ \E w \in OneWorker : Handler_Target(w)
  \/ \E w \in OneWorker : Handler_Lookup(w)
  \/ \E w \in OneWorker : Handler_Respond(w)
  \/ Tick

\* the translations handler of cache.go, one request at a time
SpecHandler == InitHandler /\ [][NextHandler]_vars


\* ------------------- s3_keys.go:10-28, main.go:352: the keys of the bucket
\* A part of a key is text; here a sequence of characters, so that trimming
\* and replacing act on it as strings.TrimSpace and strings.ReplaceAll do.
MaxPartLen == 3
KeyChars == {".", "/", "\\", " ", "a"}

\* every text of at most n characters
PartsUpTo(n) == UNION {[1..k -> KeyChars] : k \in 0..n}

\* main.go:638-639  lang := c.Params("lang")
LangParts == {<<"a">>, <<"a", ".", ".">>}

\* s3_keys.go:11  strings.TrimSpace
RECURSIVE TrimSpace(_)
TrimSpace(s) ==
  IF s = <<>> THEN s
  ELSE IF Head(s) = " " THEN TrimSpace(Tail(s))
  ELSE IF s[Len(s)] = " " THEN TrimSpace(SubSeq(s, 1, Len(s) - 1))
  ELSE s

\* strings.ReplaceAll for a non-empty old: the occurrences are found from the
\* left and do not overlap, and what is put in is not looked at again
RECURSIVE ReplaceAll(_, _, _)
ReplaceAll(s, old, new) ==
  IF Len(s) < Len(old) THEN s
  ELSE IF SubSeq(s, 1, Len(old)) = old
       THEN new \o ReplaceAll(SubSeq(s, Len(old) + 1, Len(s)), old, new)
       ELSE <<Head(s)>> \o ReplaceAll(Tail(s), old, new)

\* the separators are taken out instead of being replaced by "_"
sanitizeKeyPart_DropsSeparators(s) ==
  LET t == ReplaceAll(ReplaceAll(ReplaceAll(TrimSpace(s), <<".", ".">>, <<>>),
                                 <<"/">>, <<>>), <<"\\">>, <<>>)
  IN IF t = <<>> THEN <<"_">> ELSE t

\* s3_keys.go:10-19
sanitizeKeyPart(s) ==
  LET t == ReplaceAll(ReplaceAll(ReplaceAll(TrimSpace(s), <<".", ".">>, <<>>),
                                 <<"/">>, <<"_">>), <<"\\">>, <<"_">>)
  IN IF t = <<>> THEN <<"_">> ELSE t

\* main.go:352 with s3_keys.go:22-24: the key of the latest pointer of the
\* translations of appID in lang and mode; "localizations", the mode and
\* "latest.json" are one element each
LatestPointerKey(appID, lang, nested) ==
  <<"localizations", "/">> \o sanitizeKeyPart(appID) \o <<"/">>
     \o sanitizeKeyPart(lang \o <<"_", Mode(nested)>>) \o <<"/", "latest.json">>

NoPartReq == [app |-> <<>>, lang |-> <<>>, nested |-> FALSE, known |-> FALSE]
NoPartKey == [val |-> <<>>, err |-> NoErr, app |-> <<>>, lang |-> <<>>]

InitSanitize ==
  /\ now = 0
  /\ rdb = EmptyMap
  /\ s3c = TRUE
  /\ s3 = EmptyMap
  /\ sf = EmptyMap
  /\ pc = [p \in Procs |-> "idle"]
  /\ req = [p \in Procs |-> NoPartReq]
  /\ v = [p \in Procs |-> NoPartKey]
  /\ trail = [p \in Procs |-> <<>>]
  /\ coal = [p \in Procs |-> 0]
  /\ during = [p \in Procs |-> 0]

\* main.go:637-639, 352: a request for the translations of an app in a
\* language and a mode, and the key of its latest pointer with its two parts
LatestKey_Build(w) ==
  /\ Idle(w)
  /\ \A x \in Workers : x < w => ~Idle(x)
  /\ \E a \in PartsUpTo(MaxPartLen), l \in LangParts, n \in BOOLEAN :
       /\ req' = [req EXCEPT ![w] = [app |-> a, lang |-> l, nested |-> n, known |-> TRUE]]
       /\ v' = [v EXCEPT ![w] = [val |-> LatestPointerKey(a, l, n), err |-> NoErr,
                                 app |-> sanitizeKeyPart(a),
                                 lang |-> sanitizeKeyPart(l \o <<"_", Mode(n)>>)]]
  /\ pc' = [pc EXCEPT ![w] = "z_done"]
  /\ UNCHANGED <<now, rdb, s3, s3c, sf, trail, coal, during>>

\* the call that asked for the key goes on
LatestKey_Return(w) ==
  /\ pc[w] = "z_done"
  /\ \A x \in Workers : x > w => Idle(x)
  /\ pc' = [pc EXCEPT ![w] = "idle"]
  /\ req' = [req EXCEPT ![w] = NoPartReq]
  /\ v' = [v EXCEPT ![w] = NoPartKey]
  /\ UNCHANGED <<now, rdb, s3, s3c, sf, trail, coal, during>>

NextSanitize ==
  \/ \E w \in Workers : LatestKey_Build(w)
  \/ \E w \in Workers : LatestKey_Return(w)

\* the latest-pointer keys of the requests of main.go
SpecSanitize == InitSanitize /\ [][NextSanitize]_vars


\* ------------------------------------------------------------ properties
Rank(tier) == CASE tier = "P" -> 1 [] tier = "D" -> 2 [] OTHER -> 3
Last(t) == t[Len(t)]
Hits(w) == {i \in 1..Len(trail[w]) : trail[w][i][2] \in Payloads}
\* the call is at the return of a lookup it made itself
OwnChain(w) == pc[w] \in {"hit", "sf_done"}
\* the proc is executing the fn of its flight
Led(w) == pc[w] \notin {"idle", "get", "sf_do"} /\ LeaderOf(RedisKeyOf(req[w])) = w
LatestKeyOf(r) == s3LatestKey(r.app, LangMode(r))

\* C1: a Get consults Primary, then Durable latest, then Origin, in that
\* order; nothing is consulted after a tier has yielded a payload; and the
\* call returns the payload of that first yielding tier (the sentinel if none).
C1_TierOrder ==
  \A w \in Procs :
    LET t == trail[w] IN
    /\ \A i, j \in 1..Len(t) : i < j => Rank(t[i][1]) <= Rank(t[j][1])
    /\ \A i \in 1..Len(t) :
         /\ t[i][1] = "D" => i > 1 /\ t[i - 1][1] = "P"
         /\ t[i][1] = "O" => i > 1 /\ t[i - 1][1] = (IF s3c THEN "D" ELSE "P")
    /\ \A i \in Hits(w) : i = Len(t)
    /\ OwnChain(w) =>
         ReturnValue(w).val = (IF Hits(w) # {} THEN Last(t)[2] ELSE Sentinel)

\* a Durable hit after two Primary misses is about to be returned
C1_Witness ==
  \E w \in Procs :
    /\ pc[w] = "sf_done"
    /\ Len(trail[w]) = 3
    /\ trail[w][3][1] = "D"
    /\ trail[w][3][2] \in Payloads
    /\ ReturnValue(w).val = trail[w][3][2]

\* C2 as stated: a Get issued while a fill of its key is in flight never
\* executes the fill function itself, and returns the bytes that fill returns.
C2_IssuedDuringFlight ==
  \A w \in Procs :
    during[w] # 0 =>
      /\ ~Led(w)
      /\ (during[w] \in Procs /\ pc[during[w]] = "sf_done" /\ AtReturn(w))
           => ReturnValue(w) = ReturnValue(during[w])

\* a duplicate has made the first Redis read only, and waits for the flight
\* that is in progress under its key
Waiting ==
  \A x \in Procs :
    /\ pc[x] \in {"sf_wait", "sf_ret"} => Len(trail[x]) = 1 /\ ~Led(x)
    /\ pc[x] = "sf_wait" => coal[x] # 0 /\ coal[x] = LeaderOf(RedisKeyOf(req[x]))

\* C2 amended: a Get that enters sf.Do while the fill of its key is executing
\* does not execute the fill function; it waits for that flight, and when the
\* flight ends it is handed exactly what the fill function returned.
C2_Coalesced ==
  [][ /\ Waiting'
      /\ \A l, x \in Procs :
           (pc[l] = "sf_done" /\ pc'[l] = "idle" /\ pc[x] = "sf_wait" /\ coal[x] = l)
             => /\ pc'[x] = "sf_ret"
                /\ ReturnValue(x)' = ReturnValue(l) ]_vars

\* a Get issued during a flight has been woken with the payload of that flight
C2_Witness ==
  \E x \in Procs :
    /\ pc[x] = "sf_ret"
    /\ during[x] # 0
    /\ coal[x] # 0
    /\ ReturnValue(x).val \in Payloads

\* C3: a Get never returns an error nor an empty body; when no tier yields a
\* payload (misses, errors, failed export, empty app id) it returns "{}", nil.
C3_NeverError ==
  \A w \in Procs :
    AtReturn(w) =>
      /\ ReturnValue(w).err = NoErr
      /\ ReturnValue(w).val \in Payloads \cup {Sentinel}
      /\ (OwnChain(w) /\ Hits(w) = {}) => ReturnValue(w) = [val |-> Sentinel, err |-> NoErr]

\* Primary and Durable yielded nothing, the export failed, the call returns "{}"
C3_Witness ==
  \E w \in Procs :
    /\ pc[w] = "sf_done"
    /\ Hits(w) = {}
    /\ Last(trail[w])[1] = "O"
    /\ Last(trail[w])[2] \in {"transport error", "non-2xx", "empty body"}
    /\ ReturnValue(w) = [val |-> Sentinel, err |-> NoErr]

\* C4: a tier that yields nothing, by a miss or by an error, never ends the
\* lookup: the call goes on to the next tier, it returns from its own chain
\* only with a payload or after the Origin step, and a payload found in a
\* deeper tier is what it returns.
C4_FailureContinues ==
  \A w \in Procs :
    LET t == trail[w] IN
    /\ (Len(t) >= 1 /\ Last(t)[2] = Miss(IOError)) =>
          \/ Len(t) = 1 /\ pc[w] \in {"sf_do", "sf_wait", "sf_ret", "fill_redis"}
          \/ Len(t) = 2 /\ pc[w] = "fill_s3"
          \/ Len(t) = 3 /\ pc[w] = "fill_origin"
    /\ OwnChain(w) => Hits(w) # {} \/ Last(t)[1] = "O"
    /\ (OwnChain(w) /\ Len(t) >= 3 /\ Last(t)[2] \in Payloads) =>
          ReturnValue(w).val = Last(t)[2]

\* Redis holds the key and S3 holds the latest object, both reads failed and
\* the call is about to ask Tolgee
C4_Witness ==
  \E w \in Procs :
    /\ pc[w] = "fill_origin"
    /\ RedisKeyOf(req[w]) \in DOMAIN rdb
    /\ LatestKeyOf(req[w]) \in DOMAIN s3
    /\ Len(trail[w]) = 3

\* the step of a fill that found Primary and Durable empty and got payload p
CleanOriginFill(w) ==
  /\ pc[w] = "fill_origin"
  /\ pc'[w] = "sf_done"
  /\ Last(trail'[w])[2] \in Payloads
  /\ RedisKeyOf(req[w]) \notin DOMAIN rdb
  /\ LatestKeyOf(req[w]) \notin DOMAIN s3

NewObjects == (DOMAIN s3') \ (DOMAIN s3)

\* C5 as stated: after such a fill Primary holds p under K with the fill time
\* in the sidecar, Durable holds exactly one new versioned object and a latest
\* pointer, both with p, and the Get returns p.
C5_AfterOriginFill ==
  [][ \A w \in Procs :
        CleanOriginFill(w) =>
          LET p == Last(trail'[w])[2]
              K == RedisKeyOf(req[w])
              L == LatestKeyOf(req[w])
          IN /\ ReturnValue(w)' = Result(p)
             /\ K \in DOMAIN rdb' /\ rdb'[K].val = p
             /\ FetchedAtKeyOf(req[w]) \in DOMAIN rdb'
             /\ rdb'[FetchedAtKeyOf(req[w])].val = now
             /\ Cardinality(NewObjects \ {L}) = 1
             /\ \A k \in NewObjects : s3'[k].body = p
             /\ L \in DOMAIN s3' ]_vars

\* C5 amended: such a Get returns p; each write-back is best effort, so
\* Primary holds either nothing or p under K, the sidecar is absent or the fill
\* time, and Durable gains at most one versioned object with p and, only
\* together with a version, the latest pointer with p; nothing else changes.
C5_BestEffortWriteBack ==
  [][ \A w \in Procs :
        CleanOriginFill(w) =>
          LET p == Last(trail'[w])[2]
              K == RedisKeyOf(req[w])
              F == FetchedAtKeyOf(req[w])
              L == LatestKeyOf(req[w])
              V == s3VersionKey(req[w].app, LangMode(req[w]), now, Sha256Hex(p))
          IN /\ ReturnValue(w)' = Result(p)
             /\ DOMAIN rdb' \subseteq (DOMAIN rdb) \cup {K, F}
             /\ \A k \in DOMAIN rdb : k \in DOMAIN rdb' /\ k \notin {K, F} => rdb'[k] = rdb[k]
             /\ K \in DOMAIN rdb' => rdb'[K] = [val |-> p, exp |-> now + redisValueTTL]
             /\ F \in DOMAIN rdb' => rdb'[F] = [val |-> now, exp |-> now + redisValueTTL]
             /\ NewObjects \subseteq {V, L}
             /\ \A k \in DOMAIN s3 : k \in DOMAIN s3' /\ (k # V => s3'[k] = s3[k])
             /\ \A k \in {V, L} \cap DOMAIN s3' : s3'[k] = [body |-> p, created |-> now]
             /\ L \in DOMAIN s3' => V \in DOMAIN s3' ]_vars

\* an empty store was filled from Tolgee and every write-back succeeded
C5_Witness ==
  \E w \in Procs :
    LET K == RedisKeyOf(req[w])
        F == FetchedAtKeyOf(req[w])
        L == LatestKeyOf(req[w])
    IN /\ pc[w] = "sf_done"
       /\ Last(trail[w])[1] = "O"
       /\ Last(trail[w])[2] \in Payloads
       /\ K \in DOMAIN rdb /\ rdb[K].val = Last(trail[w])[2]
       /\ F \in DOMAIN rdb /\ rdb[F].val = now
       /\ L \in DOMAIN s3 /\ s3[L] = [body |-> Last(trail[w])[2], created |-> now]
       /\ Cardinality(DOMAIN s3) = 2

\* C9 as stated: at most one refresh goroutine of a key is alive
C9_OneRefreshTask ==
  \A t, u \in Tasks : (~Idle(t) /\ ~Idle(u) /\ req[t] = req[u]) => t = u

OriginCalled(w) ==
  \E i \in 1..Len(trail[w]) : trail[w][i][1] = "O" /\ trail[w][i][2] # EmptyAk

\* C10 as stated: a refresh goroutine that runs to completion has called Tolgee
C10_RefreshCallsOrigin ==
  \A t \in Tasks : (AtReturn(t) /\ req[t].app # "") => OriginCalled(t)

\* C6 as stated: when a Get is satisfied by the Durable Store and the write
\* to Redis succeeds, Redis holds the payload under the key the Get reads.
C6_WriteBackSameKey ==
  [][ \A w \in Procs :
        (pc[w] = "lg_s3" /\ pc'[w] = "lg_ret" /\ v'[w].err = NoErr /\ rdb' # rdb) =>
          LET K == LegacyKey(req[w].lang, req[w].nested)
          IN K \in DOMAIN rdb' /\ rdb'[K].val = v'[w].val ]_vars

\* the proc executes the fn of a flight of cache.go
LedF(w) == pc[w] \in {"f_redis", "f_s3", "f_origin", "f_done"}

\* C7 as stated: what a forced Get returns was produced by an Origin call
C7_ForcedFromOrigin ==
  \A w \in Procs :
    (req[w].force /\ pc[w] \in {"f_hit", "f_done", "f_ret"}) => v[w].src = "O"

InSchedule(w) == pc[w] \in {"sched", "sched_run", "sched_wait"}

\* C11: the Get that observed staleness is never held up by a refresh
\* goroutine: it holds the stale payload; its sf.Do("refresh:"...) and the go
\* statement inside are enabled whatever the refresh goroutines are doing; a
\* caller that waits in that sf.Do waits for a go statement only; and behind
\* the schedule its return is enabled.
C11_NonBlocking ==
  \A w \in Procs :
    /\ InSchedule(w) => v[w].err = NoErr /\ v[w].val \in Payloads
    /\ pc[w] = "sched" => ENABLED ScheduleRefresh(w)
    /\ pc[w] = "sched_run" => ENABLED RefreshSpawn(w, OneTask)
    /\ pc[w] = "sched_wait" =>
         \E x \in Procs : pc[x] = "sched_run" /\ RefreshKey(req[x]) = RefreshKey(req[w])
    /\ pc[w] = "hit" => ENABLED ReturnHit(w)
    /\ pc[w] = "sf_done" => ENABLED SfDone(w)

\* a request worker is at the go statement while a refresh goroutine of its
\* key is running
C11_Witness ==
  \E w \in Workers, t \in Tasks :
    /\ pc[w] = "sched_run"
    /\ ~Idle(t)
    /\ SameKey(req[t], req[w])

\* the age of the latest object of the call's key, when S3 holds one
DurableAge(r) == now - s3[LatestKeyOf(r)].created

\* the call executes the go statement of scheduleRefreshBestEffort
Spawns(w) == pc[w] = "sched_run" /\ pc'[w] # "sched_run"

\* a refresh goroutine of the key of w, other than w itself, is running
RefreshAlive(w) == \E t \in Tasks \ {w} : ~Idle(t) /\ SameKey(req[t], req[w])

\* C12 as stated: a hit goes to the schedule only when its age is above 15
\* minutes, a hit of age 15 minutes or less never does, and the hits that
\* observe one stale object start one refresh goroutine between them.
C12_OnePerBurst ==
  [][ \A w \in Procs :
        /\ (pc[w] = "get" /\ pc'[w] = "sched") =>
             /\ FetchedAtKeyOf(req[w]) \in DOMAIN rdb
             /\ now - rdb[FetchedAtKeyOf(req[w])].val > staleAfter
        /\ (pc[w] = "fill_s3" /\ pc'[w] = "sched") =>
             /\ LatestKeyOf(req[w]) \in DOMAIN s3
             /\ DurableAge(req[w]) > staleAfter
        /\ Spawns(w) => ~RefreshAlive(w) ]_vars

\* C13 as stated: with nothing in Redis and a latest object older than 15
\* minutes, the Get that leads the fill holds the payload of that object when
\* it schedules the refresh, and a Get that ran at the same time as another
\* Get's fill schedules nothing while a refresh goroutine of the key is running.
C13_SecondSchedulesNone ==
  \A x \in Workers :
    (rdb = EmptyMap /\ InSchedule(x) /\ LatestKeyOf(req[x]) \in DOMAIN s3) =>
      /\ DurableAge(req[x]) > staleAfter
      /\ v[x] = Result(s3[LatestKeyOf(req[x])].body)
      /\ during[x] # 0 => ~RefreshAlive(x)

\* C14: a refresh goroutine runs under context.Background(): whatever happens
\* to the request that scheduled it (its context is cancelled, the request
\* returns), the context of the goroutine is not over and none of its
\* operations is made to fail.
C14_Detached ==
  \A t \in Tasks :
    ~Idle(t) =>
      /\ req[t].ctx = 0
      /\ ~Cancelled(t)
      /\ Under(t, RedisGet(RedisKeyOf(req[t]))) = RedisGet(RedisKeyOf(req[t]))
      /\ OriginUnder(t) = OriginOutcomes

\* the context of a request of the key was cancelled while that request is
\* being served, and a refresh goroutine of the key has fetched the export
\* from Tolgee
C14_Witness ==
  \E w \in OneWorker, t \in Tasks :
    /\ ~Idle(w)
    /\ req[w].done
    /\ Cancelled(w)
    /\ SameKey(req[w], req[t])
    /\ pc[t] = "sf_done"
    /\ Last(trail[t])[1] = "O"
    /\ Last(trail[t])[2] \in Payloads

\* what GetLatest of the key of a logged put can return
LatestRead(e) ==
  getLatestF([res |-> e.kind, app |-> e.app, lang |-> "en", nested |-> FALSE])

\* the logged put i of w went through and no later put on its key did
LastOk(w, i) ==
  /\ trail[w][i].outcome = "ok"
  /\ \A j \in (i + 1)..Len(trail[w]) :
       ~(trail[w][j].outcome = "ok" /\ EntryLatestKey(trail[w][j]) = EntryLatestKey(trail[w][i]))

\* C15: after a successful put of p under k, GetLatest(k) returns p (or fails
\* on a transport error) until the next successful put under k; and the
\* versioned object of every successful put stays retrievable under its own
\* name with the payload it was written with, whatever is put afterwards.
C15_RoundTrip ==
  \A w \in OneWorker :
    \A i \in 1..Len(trail[w]) :
      LET e == trail[w][i] IN
      /\ e.outcome = "ok" =>
           /\ EntryVersionKey(e) \in DOMAIN s3
           /\ s3[EntryVersionKey(e)].body = e.body
      /\ LastOk(w, i) =>
           LatestRead(e) = {[err |-> IOError, body |-> ""], [err |-> NoErr, body |-> e.body]}

\* p was put under k, then p2 # p: latest is p2 and the version of p is there
C15_Witness ==
  \E w \in OneWorker :
    \E i, j \in 1..Len(trail[w]) :
      LET e == trail[w][i]
          f == trail[w][j]
      IN /\ i < j
         /\ e.outcome = "ok" /\ f.outcome = "ok"
         /\ EntryLatestKey(e) = EntryLatestKey(f)
         /\ e.body # f.body
         /\ LastOk(w, j)
         /\ s3[EntryLatestKey(f)].body = f.body
         /\ s3[EntryVersionKey(e)].body = e.body
         /\ EntryVersionKey(e) # EntryVersionKey(f)

\* the names of the latest pointers; every other object of the bucket is a
\* versioned object
LatestKeys ==
  {s3LatestKey(a, StoreLang) : a \in AppIDs} \cup {s3LanguagesLatestKey(a) : a \in AppIDs}
VersionedObjects(bucket) == (DOMAIN bucket) \ LatestKeys

\* C16: no step deletes a versioned object or changes its payload or its
\* creation time; a step only adds versioned objects.
C16_AppendOnly ==
  [][ \A k \in VersionedObjects(s3) : k \in DOMAIN s3' /\ s3'[k] = s3[k] ]_vars

\* a versioned object was written, another payload was put under the key, and
\* the first payload was put again within the same second, under the same name
C16_Witness ==
  \E w \in OneWorker :
    /\ Len(trail[w]) = 3
    /\ \A i \in 1..3 : trail[w][i].outcome # "version fails"
    /\ EntryVersionKey(trail[w][1]) = EntryVersionKey(trail[w][3])
    /\ EntryLatestKey(trail[w][1]) = EntryLatestKey(trail[w][2])
    /\ trail[w][1].body # trail[w][2].body
    /\ Cardinality(VersionedObjects(s3)) = 2
    /\ s3[EntryVersionKey(trail[w][1])].body = trail[w][1].body

\* the versioned objects of the translations of app a in the bucket
TranslationVersions(a) ==
  {k \in DOMAIN s3 : \E t \in 0..MaxTime, p \in Payloads :
                       k = s3VersionKey(a, StoreLang, t, Sha256Hex(p))}

\* C17 as stated: whenever a key has a versioned object it has a latest
\* pointer, the pointer is a copy of one of its versioned objects, and no
\* versioned object of the key is newer than the pointer.
C17_LatestNotOlder ==
  \A a \in AppIDs :
    TranslationVersions(a) # {} =>
      /\ s3LatestKey(a, StoreLang) \in DOMAIN s3
      /\ \E k \in TranslationVersions(a) : s3[k] = s3[s3LatestKey(a, StoreLang)]
      /\ \A k \in TranslationVersions(a) :
           s3[k].created <= s3[s3LatestKey(a, StoreLang)].created

\* the lookups of every call are Redis and Tolgee only, Tolgee after the two
\* Redis reads, and a call that made its own lookups returns the payload of
\* the tier that yielded one, else the sentinel
TwoTier ==
  \A w \in Procs :
    LET t == trail[w] IN
    /\ \A i \in 1..Len(t) : t[i][1] \in {"P", "O"}
    /\ \A i \in 1..Len(t) : t[i][1] = "O" => i = 3 /\ t[1][1] = "P" /\ t[2][1] = "P"
    /\ \A i \in Hits(w) : i = Len(t)
    /\ OwnChain(w) =>
         ReturnValue(w) = Result(IF Hits(w) # {} THEN Last(t)[2] ELSE Sentinel)

\* the step of w is a successful export of Tolgee
OriginYields(w) ==
  /\ pc[w] = "fill_origin"
  /\ pc'[w] = "sf_done"
  /\ Last(trail'[w])[2] \in Payloads

\* C18: with s3c nil no step reads or writes the bucket; a Get is the chain
\* Redis, Tolgee: it returns the Redis payload on a hit, else the export,
\* which it writes back to Redis with the two best-effort Sets and not to S3,
\* else the sentinel.
C18_TwoTierChain ==
  [][ /\ ~s3c'
      /\ s3' = s3
      /\ TwoTier'
      /\ \A w \in Procs :
           OriginYields(w) =>
             rdb' \in {WriteBack(req[w], Last(trail'[w])[2], ok1, ok2) : ok1, ok2 \in BOOLEAN} ]_vars

\* the bucket holds a latest object of the key, s3c is nil, and the call
\* fetched the export from Tolgee after two Redis misses and cached it
C18_Witness ==
  \E w \in Procs :
    /\ ~s3c
    /\ LatestKeyOf(req[w]) \in DOMAIN s3
    /\ pc[w] = "sf_done"
    /\ Len(trail[w]) = 3
    /\ Last(trail[w])[1] = "O"
    /\ Last(trail[w])[2] \in Payloads
    /\ RedisKeyOf(req[w]) \in DOMAIN rdb
    /\ rdb[RedisKeyOf(req[w])].val = Last(trail[w])[2]
    /\ ReturnValue(w) = Result(Last(trail[w])[2])

\* --------------------------------------------------------------- C19, C20
\* the handler holds the verdict of verifyTolgeeSignature on its request
Verified(w) == pc[w] = "wh_done"
Accepted(w) == Verified(w) /\ v[w].val = "accepted"
Rejected(w) == Verified(w) /\ v[w].val = "401"

\* the request carries the MAC of its own timestamp and body under the
\* secret of the server
CorrectlySigned(w) ==
  /\ req[w].secret # ""
  /\ req[w].header.kind = "json"
  /\ req[w].header.timestamp > 0
  /\ req[w].header.signature =
       HexHmac(req[w].secret, SignedPayload(req[w].header.timestamp, req[w].body))

\* C19: the webhook accepts a request only if the secret is not empty, the
\* header decodes to a positive timestamp and a non-empty signature, the
\* signature is the hex HMAC of "<timestamp>.<body>" under the secret and the
\* timestamp is not older than 5 minutes when it is verified; and the same
\* request with another body, another timestamp or another signature is
\* rejected at that time.
C19_VerifyOnlyIf ==
  \A w \in OneWorker :
    Accepted(w) =>
      LET h == req[w].header
          k == req[w].secret
          b == req[w].body
          at == v[w].at
      IN /\ k # ""
         /\ Unmarshal(h).ok
         /\ Unmarshal(h).Timestamp > 0
         /\ Unmarshal(h).Signature # ""
         /\ h.signature = HexHmac(k, SignedPayload(h.timestamp, b))
         /\ h.timestamp >= at - signatureMaxAge
         /\ \A b2 \in Bodies \ {b} : ~verifyTolgeeSignature(k, h, b2, at)
         /\ \A t2 \in (TimestampsAt(at) \cup {h.timestamp + 1, h.timestamp - 1}) \ {h.timestamp} :
              ~verifyTolgeeSignature(k, JSONHeader(t2, h.signature), b, at)
         /\ \A g2 \in SignaturesFor(h.timestamp, b) \ {h.signature} :
              ~verifyTolgeeSignature(k, JSONHeader(h.timestamp, g2), b, at)

\* a request is accepted, and the clock has since moved on
C19_Witness ==
  \E w \in OneWorker : Accepted(w) /\ CorrectlySigned(w) /\ now > v[w].at

\* C20 as the claim states it: a correctly signed request whose timestamp is
\* more than 5 minutes away from the time of verification, on either side,
\* is rejected.
C20_TwoSidedWindow ==
  \A w \in OneWorker :
    /\ Verified(w)
    /\ CorrectlySigned(w)
    /\ \/ req[w].header.timestamp < v[w].at - signatureMaxAge
       \/ req[w].header.timestamp > v[w].at + signatureMaxAge
    => Rejected(w)

\* C20, amended: a correctly signed request is rejected when its timestamp is
\* more than 5 minutes older than the time of verification, and accepted
\* otherwise, a timestamp ahead of the clock by any amount included.
C20_OneSidedWindow ==
  \A w \in OneWorker :
    Verified(w) /\ CorrectlySigned(w) =>
      (Accepted(w) <=> req[w].header.timestamp >= v[w].at - signatureMaxAge)

\* a correctly signed request 6 minutes old is rejected
C20_Witness ==
  \E w \in OneWorker :
    /\ Rejected(w)
    /\ CorrectlySigned(w)
    /\ req[w].header.timestamp = v[w].at - signatureMaxAge - 1

\* -------------------------------------------------------------------- C21
\* the verdict of verifyTolgeeSignature on the request that handler w holds,
\* at the time the handler verified it
SignatureOk(w) ==
  verifyTolgeeSignature(req[w].secret, req[w].header, req[w].body, v[w].at)

\* C21: a request on the webhook path is answered 401 when the signature is
\* not verified, and 200 with the JSON summary of the rebuild when it is; no
\* other answer leaves the handler.
C21_TwoOutcomes ==
  \A w \in OneWorker :
    pc[w] = "lu_resp" =>
      \/ v[w].val = "401" /\ ~SignatureOk(w)
      \/ v[w].val = "200" /\ SignatureOk(w) /\ v[w].carries = "summary"

\* -------------------------------------------------------------------- C22
\* the language tags of a list that are not blank, in order
NonBlank(tags) == SelectSeq(tags, LAMBDA t : t # BlankTag)

\* the forced getTranslationsCached calls the rebuild of handler w has made
ForcedFetches(w) == SelectSeq(trail[w], LAMBDA e : e[1] # "languages")

\* the rebuild of handler w is over and the summary is about to be sent
Rebuilt(w) == pc[w] = "up_resp" /\ v[w].val = "200"

\* C22: when the languages call of a rebuild returned the envelope with N
\* records of non-blank tag under _embedded.languages, the rebuild has made
\* the forced call for each of the N tags in flat and in nested mode, 2N
\* calls, and the languages field of the summary lists those N tags.
C22_RebuildsEveryLanguage ==
  \A w \in OneWorker :
    Rebuilt(w) /\ (\E t \in TagLists : v[w].payload = JSONEnvelope(t)) =>
      LET tags == NonBlank(TagsOf(v[w].payload)) IN
      /\ Len(ForcedFetches(w)) = 2 * Len(tags)
      /\ v[w].summary.languages = tags

\* -------------------------------------------------------------------- C23
\* the calls that RebuildTheCache of handler w has made for a mode
ModeFetches(w, mode) == SelectSeq(trail[w], LAMBDA e : e[1] = mode)

\* C23: a rebuild that has the list of the languages makes the fetch of every
\* mode before it ends, whether or not an earlier fetch failed: the flat fetch
\* first, the nested fetch second.
C23_FailureDoesNotAbort ==
  \A w \in OneWorker :
    pc[w] = "lu_ok" /\ trail[w] # <<>> /\ trail[w][1] = <<"languages", "ok">> =>
      /\ Len(trail[w]) = 3
      /\ trail[w][2][1] = "flat"
      /\ trail[w][3][1] = "nested"

\* -------------------------------------------------------------------- C24
\* the forced calls of the rebuild of handler w whose Tolgee export failed
\* (transport error, non-2xx, empty body), and those that brought a body
FailedFetches(w) == SelectSeq(ForcedFetches(w), LAMBDA e : e[2] = "failed")
GoodFetches(w) == SelectSeq(ForcedFetches(w), LAMBDA e : e[2] # "failed")

\* C24: in the summary of a rebuild, refreshed is the number of language/mode
\* pairs whose forced call obtained the export from Tolgee, and failures has
\* an entry for every pair whose export failed.
C24_FailuresAccumulated ==
  \A w \in OneWorker :
    Rebuilt(w) =>
      /\ v[w].summary.refreshed = Len(GoodFetches(w))
      /\ Len(v[w].summary.failures) >= Len(FailedFetches(w))

\* -------------------------------------------------------------------- C25
\* C25: every call of getTranslationsCached or getLanguagesCached, the one
\* that runs the fill and the ones that wait for it, eventually returns.
C25_GetReturns ==
  \A w \in Workers : (pc[w] # "idle") ~> (pc[w] = "idle")

\* -------------------------------------------------------------------- C26
\* Redis holds the entry of the key of r with its fetched-at sidecar, and the
\* sidecar says the entry is not stale (an expired key is not in Redis)
FreshEntry(r) ==
  /\ RedisKeyOf(r) \in DOMAIN rdb
  /\ FetchedAtKeyOf(r) \in DOMAIN rdb
  /\ ~shouldRefresh(now, rdb[FetchedAtKeyOf(r)].val)

\* C26 as the claim states it: a call made while Redis holds a fresh entry of
\* its key returns the bytes of the entry from its first read, with no deeper
\* tier consulted and no refresh scheduled.
C26_FreshAlwaysServed ==
  [][\A w \in Procs :
       pc[w] = "get" /\ FreshEntry(req[w]) /\ pc'[w] # "get" =>
         /\ pc'[w] = "hit"
         /\ v'[w].val = rdb[RedisKeyOf(req[w])].val]_vars

\* C26, amended: a call whose first read returns a fresh entry returns the
\* bytes of the entry, has consulted Redis only, schedules no refresh, and
\* neither the read nor the return of what was read changes Redis or the
\* bucket.
C26_HitIdempotent ==
  [][\A w \in Procs :
       /\ pc[w] = "get" /\ FreshEntry(req[w]) /\ pc'[w] \in {"hit", "sched"} =>
            /\ pc'[w] = "hit"
            /\ v'[w].val = rdb[RedisKeyOf(req[w])].val
            /\ trail'[w] = << <<"P", rdb[RedisKeyOf(req[w])].val>> >>
            /\ rdb' = rdb /\ s3' = s3 /\ sf' = sf
       /\ pc[w] = "hit" /\ pc'[w] = "idle" =>
            /\ ReturnValue(w).val = v[w].val
            /\ trail[w] = << <<"P", v[w].val>> >>
            /\ rdb' = rdb /\ s3' = s3 /\ sf' = sf]_vars

\* two calls have read the same fresh entry and are about to return its bytes
C26_Witness ==
  /\ pc[1] = "hit" /\ pc[2] = "hit"
  /\ FreshEntry(req[1])
  /\ v[1].val = rdb[RedisKeyOf(req[1])].val
  /\ v[2].val = v[1].val

\* -------------------------------------------------------------------- C27
\* the key strings of a request whose keys have been built
BuiltKeys(w) == {v[w].val, v[w].at}

\* C27: cache key strings are collision-free: two requests for distinct
\* resources have pairwise distinct key strings, values and sidecars alike.
C27_KeysCollisionFree ==
  \A w1 \in Workers, w2 \in Workers :
    pc[w1] = "k_done" /\ pc[w2] = "k_done" /\ req[w1] # req[w2]
      => BuiltKeys(w1) \cap BuiltKeys(w2) = {}

\* -------------------------------------------------------------------- C28
\* what the Tolgee step of a call ended in: the last entry of its trail
LastOut(tr) == tr[Len(tr)]
SoftFailed(tr) ==
  /\ tr # <<>>
  /\ LastOut(tr)[1] = "O"
  /\ LastOut(tr)[2] \in {"transport error", "non-2xx", "empty body", EmptyAk}

\* C28: an Origin soft failure changes no stored state: the step in which the
\* export ends in a transport error, a non-2xx status, an empty body or is
\* skipped for an empty app id leaves Redis (values and sidecars) and the
\* bucket as they were and yields the sentinel, and the call returns the
\* sentinel, again without a write.
C28_SoftFailureWritesNothing ==
  [][\A p \in Procs :
       /\ pc[p] = "fill_origin" /\ pc'[p] = "sf_done" /\ SoftFailed(trail'[p]) =>
            /\ rdb' = rdb /\ s3' = s3
            /\ v'[p] = Result(Sentinel)
       /\ pc[p] = "sf_done" /\ pc'[p] = "idle" /\ SoftFailed(trail[p]) =>
            /\ rdb' = rdb /\ s3' = s3
            /\ ReturnValue(p).val = Sentinel]_vars

C28_Witness ==
  /\ pc[1] = "sf_done"
  /\ SoftFailed(trail[1])
  /\ LastOut(trail[1])[2] = "non-2xx"
  /\ v[1].val = Sentinel
  /\ s3 # EmptyMap

\* -------------------------------------------------------------------- C29
Rebuilding(w) == pc[w] \in {"up_langs", "up_decode", "up_fetch"}

\* C29: a rejected webhook request has no effect: when the verification fails
\* the handler goes straight to its 401 answer, with no call to Tolgee made for
\* it and with Redis and the bucket as they were, and the answer itself changes
\* nothing; a rebuild is in progress only for a request whose signature was
\* verified.
C29_RejectedHasNoEffect ==
  [][\A w \in Workers :
       /\ ( /\ pc[w] = "up_verify" /\ pc'[w] # "up_verify"
            /\ ~verifyTolgeeSignature(req[w].secret, req[w].header, req[w].body, now) ) =>
            /\ pc'[w] = "up_resp" /\ v'[w].val = "401"
            /\ trail'[w] = <<>>
            /\ rdb' = rdb /\ s3' = s3
       /\ pc[w] = "up_resp" /\ v[w].val = "401" /\ pc'[w] # "up_resp" =>
            /\ pc'[w] = "idle"
            /\ trail[w] = <<>>
            /\ rdb' = rdb /\ s3' = s3
       /\ Rebuilding(w)' => SignatureOk(w)']_vars

C29_Witness ==
  /\ pc[1] = "up_resp"
  /\ v[1].val = "401"
  /\ trail[1] = <<>>
  /\ ~SignatureOk(1)
  /\ rdb # EmptyMap

\* -------------------------------------------------------------------- C30
\* C30: the refresh namespace is disjoint from the main-path namespace, so a
\* refresh goroutine never waits on a foreground fill of its key: no refresh
\* goroutine sits in sf.Do(redisKey) as the duplicate of a flight that a
\* request leads.
C30_RefreshNeverWaitsOnForeground ==
  \A t \in Tasks : pc[t] = "sf_wait" => coal[t] \notin Workers

\* -------------------------------------------------------------------- C31
\* C31: the refresh work triggered by one stale observation is finite: with no
\* further request, from some point on no refresh goroutine is running and
\* none is started any more.
C31_RefreshWorkFinite ==
  <>[](\A t \in Tasks : Idle(t))

\* -------------------------------------------------------------------- C32
\* the fetched-at sidecars of the keys that the calls of the model use
SidecarKeys ==
  {FetchedAtKeyOf([app |-> a, lang |-> "en", nested |-> FALSE]) : a \in AppIDs}

\* C32: a fetched-at sidecar that is in Redis is at most redisValueTTL old, which
\* is less than staleAfter; hence the first Redis read of a call never ends in
\* the scheduling of a refresh.
C32_SidecarYoungerThanStale ==
  /\ [](\A k \in SidecarKeys \cap DOMAIN rdb :
          /\ now - rdb[k].val <= redisValueTTL
          /\ ~shouldRefresh(now, rdb[k].val))
  /\ [][\A p \in Procs : pc[p] = "get" => pc'[p] # "sched"]_vars

C32_Witness ==
  /\ pc[1] = "hit"
  /\ FetchedAtKeyOf(req[1]) \in DOMAIN rdb
  /\ now - rdb[FetchedAtKeyOf(req[1])].val >= 5
  /\ trail[1] = << <<"P", v[1].val>> >>

\* -------------------------------------------------------------------- C33
\* latest.json of the key of r is in the bucket and is stale
StaleLatest(r) ==
  LET k == s3LatestKey(r.app, LangMode(r)) IN
  k \in DOMAIN s3 /\ shouldRefresh(now, s3[k].created)

\* C33: the write-back of a Durable hit stores the time of the write-back as
\* fetched-at, not the created-at of latest.json; and a first Redis read that
\* finds the payload of a stale latest.json in Redis returns it without
\* scheduling a refresh.
C33_WriteBackIsFresh ==
  [][\A p \in Procs :
       LET side == FetchedAtKeyOf(req[p])
           latest == s3LatestKey(req[p].app, LangMode(req[p]))
       IN
       /\ ( /\ pc[p] = "fill_s3" /\ pc'[p] \in {"sched", "sf_done"}
            /\ side \in DOMAIN rdb'
            /\ (side \in DOMAIN rdb => rdb'[side] # rdb[side]) ) =>
            /\ rdb'[side].val = now
            /\ rdb'[side].exp = now + redisValueTTL
            /\ ~shouldRefresh(now, rdb'[side].val)
       /\ ( /\ pc[p] = "get" /\ pc'[p] \notin {"get", "sf_do"}
            /\ StaleLatest(req[p])
            /\ rdb[RedisKeyOf(req[p])].val = s3[latest].body ) =>
            /\ pc'[p] = "hit"
            /\ v'[p].val = s3[latest].body]_vars

C33_Witness ==
  /\ pc[1] = "hit"
  /\ StaleLatest(req[1])
  /\ v[1].val = s3[s3LatestKey(req[1].app, LangMode(req[1]))].body
  /\ FetchedAtKeyOf(req[1]) \in DOMAIN rdb
  /\ rdb[FetchedAtKeyOf(req[1])].val > s3[s3LatestKey(req[1].app, LangMode(req[1]))].created
  /\ now - rdb[FetchedAtKeyOf(req[1])].val >= 5

\* -------------------------------------------------------------------- C34
\* the versioned objects of the languages of app a in the bucket
LanguagesVersions(a) ==
  {k \in DOMAIN s3 : \E t \in 0..MaxTime, p \in Payloads :
                       k = s3LanguagesVersionKey(a, t, Sha256Hex(p))}

\* C34: a latest pointer that is in the bucket is the copy of a versioned
\* object of its key that is in the bucket: same payload, same created_utc.
C34_LatestHasVersion ==
  \A a \in AppIDs :
    /\ s3LatestKey(a, StoreLang) \in DOMAIN s3 =>
         \E k \in TranslationVersions(a) : s3[k] = s3[s3LatestKey(a, StoreLang)]
    /\ s3LanguagesLatestKey(a) \in DOMAIN s3 =>
         \E k \in LanguagesVersions(a) : s3[k] = s3[s3LanguagesLatestKey(a)]

\* a put went through, and a later put of another payload under the same key
\* failed at its versioned object: the pointer still holds the first payload
C34_Witness ==
  \E w \in OneWorker :
    \E i, j \in 1..Len(trail[w]) :
      LET e == trail[w][i]
          f == trail[w][j]
      IN /\ i < j
         /\ e.outcome = "ok" /\ f.outcome = "version fails"
         /\ EntryLatestKey(e) = EntryLatestKey(f)
         /\ e.body # f.body
         /\ LastOk(w, i)
         /\ s3[EntryLatestKey(e)].body = e.body
         /\ EntryVersionKey(f) \notin DOMAIN s3

\* -------------------------------------------------------------------- C35
\* the flight that w leads still has tier calls to make
FillAhead(w) == pc[w] \in {"fill_redis", "fill_s3", "fill_origin"}

\* C35: each call is governed by its own context: the tier calls that are still
\* to be made for a caller with a live context, waiting in sf.Do, are not made
\* under the cancelled context of another caller.
C35_OwnContextGoverns ==
  \A x \in Procs, w \in Procs :
    pc[x] = "sf_wait" /\ coal[x] = w /\ ~Cancelled(x) /\ FillAhead(w) => ~Cancelled(w)

\* -------------------------------------------------------------------- C36
\* the last lookup of the request that w answers, and whether it found nothing
LastLookup(w) == trail[w][Len(trail[w])]

\* C36: the fallback is a two-step resolution: a request is answered after at
\* most two lookups, the second one for "en" and made only when the first
\* found nothing for a target other than "en"; a lookup that finds nothing is
\* the last one only when it is the lookup of "en", and then the answer is an
\* error.
C36_TwoStepResolution ==
  \A w \in Workers :
    pc[w] = "h_resp" =>
      /\ Len(trail[w]) \in {1, 2}
      /\ Len(trail[w]) = 2 =>
           /\ trail[w][1].lang # "en" /\ ~trail[w][1].found
           /\ trail[w][2].lang = "en"
      /\ ~LastLookup(w).found =>
           /\ LastLookup(w).lang = "en"
           /\ (v[w].err # NoErr \/ v[w].status # "200")

\* -------------------------------------------------------------------- C37
\* C37: when the lookup of a target other than "en" finds no data in any
\* tier, the handler answers with what the lookup of "en" returned and with
\* Content-Language "en".
C37_ServesEnglishInstead ==
  \A w \in Workers :
    pc[w] = "h_resp" /\ trail[w][1].lang # "en" /\ ~trail[w][1].found =>
      /\ Len(trail[w]) = 2
      /\ trail[w][2].lang = "en"
      /\ v[w].lang = "en"
      /\ v[w].val = trail[w][2].val

\* -------------------------------------------------------------------- C38
\* an app id that a request can carry: one segment of the path, not empty,
\* without "/" and without blanks
PathSegment(s) == s # <<>> /\ \A i \in 1..Len(s) : s[i] \notin {"/", " "}

\* C38: durable object keys are collision-free: two requests for distinct
\* resources (app id, language, mode) have distinct latest-pointer keys.
C38_LatestKeysCollisionFree ==
  \A w1 \in Workers, w2 \in Workers :
    /\ pc[w1] = "z_done" /\ pc[w2] = "z_done" /\ req[w1] # req[w2]
    /\ PathSegment(req[w1].app) /\ PathSegment(req[w2].app)
    => v[w1].val # v[w2].val

\* -------------------------------------------------------------------- C39
\* a text free of "..", "/" and "\"
HasDotDot(s) == \E i \in 1..(Len(s) - 1) : s[i] = "." /\ s[i + 1] = "."
CleanPart(s) ==
  /\ s # <<>>
  /\ ~HasDotDot(s)
  /\ \A i \in 1..Len(s) : s[i] \notin {"/", "\\"}
\* the number of path segments of a key
Segments(k) == 1 + Cardinality({i \in 1..Len(k) : k[i] = "/"})

\* C39: for every input sanitizeKeyPart returns a non-empty text without
\* "..", "/" and "\" ("_" for an input that sanitizes to nothing), so the key
\* built from any app id and language has exactly four path segments.
C39_SanitizedPartIsClean ==
  \A w \in Workers :
    pc[w] = "z_done" =>
      /\ CleanPart(v[w].app)
      /\ CleanPart(v[w].lang)
      /\ (ReplaceAll(TrimSpace(req[w].app), <<".", ".">>, <<>>) = <<>> => v[w].app = <<"_">>)
      /\ Segments(v[w].val) = 4

\* a request whose app id holds dots around a separator, and one whose app id
\* sanitizes to nothing
C39_Witness ==
  /\ pc[1] = "z_done" /\ req[1].app = <<".", "/", ".">> /\ v[1].app = <<".", "_", ".">>
  /\ pc[2] = "z_done" /\ req[2].app = <<" ", ".", ".">> /\ v[2].app = <<"_">>

====
